---- MODULE Spec2Model ----
(***************************************************************************)
(* Voice-packet decode and audio-frame reconstruction of cs2-voice-tools:  *)
(* DecodeChunk (packet parse + CRC32 verification), OpusDecoder.Decode     *)
(* (sub-chunk sequencing with loss concealment) and                        *)
(* convertAudioDataToWavFiles (the per-speaker loop over the payloads).    *)
(*                                                                         *)
(* Representation of machine integers: a byte is 0..255, a u16 is 0..65535,*)
(* u32 and u64 values are written as their base-256 digits, most           *)
(* significant digit first (4 and 8 digits), so that a little-endian read  *)
(* is a real conversion (a reversal of the wire bytes).                    *)
(***************************************************************************)
EXTENDS Integers, Sequences, FiniteSets, TLC

----------------------------------------------------------------------------
(* Bytes and fixed-width integers                                          *)

Byte == 0..255

U16Mod == 65536

\* uint16 arithmetic wraps modulo 2^16
U16(n) == n % U16Mod

RECURSIVE Xor(_, _)
\* bitwise exclusive or of two naturals
Xor(a, b) ==
    IF a = 0 THEN b
    ELSE IF b = 0 THEN a
    ELSE (((a % 2) + (b % 2)) % 2) + 2 * Xor(a \div 2, b \div 2)

Reverse(s) == [i \in 1..Len(s) |-> s[Len(s) + 1 - i]]

\* first n elements of s (all of s when it is shorter)
Take(s, n) == SubSeq(s, 1, IF n < Len(s) THEN n ELSE Len(s))

\* s without its first n elements
Drop(s, n) == SubSeq(s, n + 1, Len(s))

\* binary.LittleEndian decoding of a u16: two wire bytes to a number
ReadU16(b) == b[1] + (256 * b[2])

\* binary.LittleEndian decoding of an int16: two's complement of ReadU16
ReadI16(b) == IF ReadU16(b) >= 32768 THEN ReadU16(b) - U16Mod ELSE ReadU16(b)

\* ReadDigits in big-endian byte order
ReadDigits_BigEndian(b) == b

\* binary.LittleEndian decoding of a u32 / u64: wire bytes to digits (MSB first)
ReadDigits(b) == Reverse(b)

\* little-endian wire encodings (the documented packet layout)
PutU16(n) == <<n % 256, (n \div 256) % 256>>

PutI16(n) == PutU16((n + U16Mod) % U16Mod)

PutDigits(d) == Reverse(d)

----------------------------------------------------------------------------
(* hash/crc32.ChecksumIEEE: reflected CRC-32, polynomial 0xEDB88320,       *)
(* initial value and final xor 0xFFFFFFFF, table driven one byte at a time *)

\* 0xEDB88320 as digits
IEEEPoly == <<237, 184, 131, 32>>

\* digits (MSB first) shifted right by one bit
ShiftRight1(d) ==
    << d[1] \div 2,
       ((d[1] % 2) * 128) + (d[2] \div 2),
       ((d[2] % 2) * 128) + (d[3] \div 2),
       ((d[3] % 2) * 128) + (d[4] \div 2) >>

\* exclusive or of two bytes, tabulated once
ByteXor == [a \in Byte |-> [b \in Byte |-> Xor(a, b)] @@ <<>>] @@ <<>>

XorDigits(x, y) ==
    <<ByteXor[x[1]][y[1]], ByteXor[x[2]][y[2]], ByteXor[x[3]][y[3]],
      ByteXor[x[4]][y[4]]>>

\* one bit step of the table construction
CrcBitStep(d) ==
    IF d[4] % 2 = 1 THEN XorDigits(ShiftRight1(d), IEEEPoly) ELSE ShiftRight1(d)

RECURSIVE CrcBits(_, _)
CrcBits(d, k) == IF k = 0 THEN d ELSE CrcBits(CrcBitStep(d), k - 1)

\* crc32.IEEETable, tabulated once (@@ yields an explicit table)
IEEETable == [n \in Byte |-> CrcBits(<<0, 0, 0, n>>, 8)] @@ <<>>

\* crc = table[byte(crc) ^ b] ^ (crc >> 8)
CrcUpdate(crc, b) ==
    XorDigits(IEEETable[ByteXor[crc[4]][b]], <<0, crc[1], crc[2], crc[3]>>)

RECURSIVE CrcFold(_, _, _)
\* the update loop over b[i..]; each step looks at crc before going on, so
\* that the register is a value, not a pending computation, at every byte
CrcFold(crc, b, i) ==
    IF crc[4] \notin Byte \/ i > Len(b) THEN crc
    ELSE CrcFold(CrcUpdate(crc, b[i]), b, i + 1)

ChecksumIEEE(b) ==
    XorDigits(CrcFold(<<255, 255, 255, 255>>, b, 1), <<255, 255, 255, 255>>)

----------------------------------------------------------------------------
(* Packet parsing: DecodeChunk                                             *)

minimumLength == 18

PayloadTypeHeader == 11

VoiceTypeOpusPLC == 6

VoiceTypeSilence == 0

ErrInsufficientData == "ErrInsufficientData"

ErrInvalidVoicePacket == "ErrInvalidVoicePacket"

ErrMismatchChecksum == "ErrMismatchChecksum"

\* the nil error
NoErr == "nil"

\* fmt.Errorf("msg: %w", cause): the message and the error it wraps
Wrap(msg, cause) == <<msg, cause>>

\* no error returned by the run
NoError == Wrap(NoErr, NoErr)

\* the nil *Chunk
NilChunk == [nil |-> TRUE]

\* a Chunk value; Data is <<>> for the zero value (silence) and for length 0
Chunk(steamID, sampleRate, length, data, checksum) ==
    [SteamID |-> steamID, SampleRate |-> sampleRate, Length |-> length,
     Data |-> data, Checksum |-> checksum]

\* return nil, err
Fail(e) == [err |-> e, chunk |-> NilChunk]

\* ChecksumOk that only looks at the low byte of the checksum
ChecksumOk_LowByte(received, b) ==
    received[4] = ChecksumIEEE(SubSeq(b, 1, Len(b) - 4))[4]

\* the checksum comparison of DecodeChunk
ChecksumOk(received, b) == received = ChecksumIEEE(SubSeq(b, 1, Len(b) - 4))

\* number of bytes the voice-type switch consumes after the 14-byte header
VoiceDataLen(voiceType, length) ==
    IF voiceType = VoiceTypeOpusPLC THEN length ELSE 0

\* TooShort with the bound off by one: 17 bytes pass
TooShort_OffByOne(bLen) == bLen + 1 < minimumLength

\* the length guard at the top of DecodeChunk
TooShort(bLen) == bLen < minimumLength

\* TagOk that lets every type tag through
TagOk_Any(payloadType) == payloadType \in Byte

\* the type-tag test (line 82)
TagOk(payloadType) == payloadType = PayloadTypeHeader

\* ShortRead that also asks for the 4 trailer bytes
ShortRead_ReserveTrailer(remaining, chunkLen) == remaining < chunkLen + 4

\* the voice data would end past the input (line 105)
ShortRead(remaining, chunkLen) == remaining < chunkLen

\* TrailerOk that accepts bytes left over before the checksum
TrailerOk_AtLeast(remaining) == remaining >= 4

\* exactly the 4 checksum bytes remain (line 131)
TrailerOk(remaining) == remaining = 4

\* DecodeChunk that compares the checksum before it looks at the header
DecodeChunk_ChecksumFirst(b) ==
    LET bLen == Len(b) IN
    IF TooShort(bLen) THEN Fail(ErrInsufficientData)
    ELSE
    LET steamID     == ReadDigits(SubSeq(b, 1, 8))
        payloadType == b[9]
        sampleRate  == ReadU16(SubSeq(b, 10, 11))
        voiceType   == b[12]
        length      == ReadU16(SubSeq(b, 13, 14))
        afterHeader == bLen - 14
        dataLen     == VoiceDataLen(voiceType, length)
        data        == SubSeq(b, 15, 14 + dataLen)
        remaining   == afterHeader - dataLen
        checksum    == ReadDigits(SubSeq(b, bLen - 3, bLen))
    IN
    IF ~ChecksumOk(checksum, b) THEN Fail(ErrMismatchChecksum)
    ELSE IF ~TagOk(payloadType) THEN Fail(ErrInvalidVoicePacket)
    ELSE IF voiceType = VoiceTypeOpusPLC /\ ShortRead(afterHeader, length)
        THEN Fail(ErrInsufficientData)
    ELSE IF voiceType # VoiceTypeOpusPLC /\ voiceType # VoiceTypeSilence
        THEN Fail(ErrInvalidVoicePacket)
    ELSE IF ~TrailerOk(remaining) THEN Fail(ErrInvalidVoicePacket)
    ELSE [err |-> NoErr,
          chunk |-> Chunk(steamID, sampleRate, length, data, checksum)]

\* DecodeChunk (part_008 lines 61-146): the checks in the order of the code
DecodeChunk(b) ==
    LET bLen == Len(b) IN
    IF TooShort(bLen) THEN Fail(ErrInsufficientData)
    ELSE
    LET steamID     == ReadDigits(SubSeq(b, 1, 8))
        payloadType == b[9]
        sampleRate  == ReadU16(SubSeq(b, 10, 11))
        voiceType   == b[12]
        length      == ReadU16(SubSeq(b, 13, 14))
        afterHeader == bLen - 14
        dataLen     == VoiceDataLen(voiceType, length)
        data        == SubSeq(b, 15, 14 + dataLen)
        remaining   == afterHeader - dataLen
        checksum    == ReadDigits(SubSeq(b, bLen - 3, bLen))
    IN
    IF ~TagOk(payloadType) THEN Fail(ErrInvalidVoicePacket)
    ELSE IF voiceType = VoiceTypeOpusPLC /\ ShortRead(afterHeader, length)
        THEN Fail(ErrInsufficientData)
    ELSE IF voiceType # VoiceTypeOpusPLC /\ voiceType # VoiceTypeSilence
        THEN Fail(ErrInvalidVoicePacket)
    ELSE IF ~TrailerOk(remaining) THEN Fail(ErrInvalidVoicePacket)
    ELSE IF ~ChecksumOk(checksum, b) THEN Fail(ErrMismatchChecksum)
    ELSE [err |-> NoErr,
          chunk |-> Chunk(steamID, sampleRate, length, data, checksum)]

----------------------------------------------------------------------------
(* The codec engine (gopkg.in/hraban/opus.v2) is external: whether it      *)
(* accepts a frame or synthesises a concealment frame is its own choice,   *)
(* modelled by the nondeterministic inputs of the actions below.  Samples  *)
(* are opaque: the output is a sequence of sample blocks, one per codec    *)
(* call, a decoded block remembering the codec data it was decoded from.   *)

FrameSize == 480

\* most concealment frames synthesised for one gap
MaxLoss == 10

Min(a, b) == IF a < b THEN a ELSE b

\* samples of one successful DecodeFloat32 call on codec data b
DecodedBlock(b) == [kind |-> "frame", data |-> b]

\* samples of one successful DecodePLCFloat32 call: FrameSize samples
LossBlock == [kind |-> "plc", samples |-> FrameSize]

\* decodeSteamChunk: one DecodeFloat32 call; ok is the engine's verdict
decodeSteamChunk(b, ok) ==
    IF ok THEN [err |-> NoErr, samples |-> <<DecodedBlock(b)>>, frameCalls |-> 1]
    ELSE [err |-> "CodecError", samples |-> <<>>, frameCalls |-> 1]

\* LossCount without the cap
LossCount_NoCap(samples) == samples

\* number of concealment frames decodeLoss asks for
LossCount(samples) == Min(samples, MaxLoss)

\* decodeLoss: min(samples, 10) DecodePLCFloat32 calls; failAt is the call the
\* engine fails at (0: none fails)
decodeLoss(samples, failAt) ==
    LET loss == LossCount(samples) IN
    IF failAt >= 1 /\ failAt <= loss
    THEN [err |-> "CodecError", samples |-> <<>>, plcCalls |-> failAt]
    ELSE [err |-> NoErr, samples |-> [i \in 1..loss |-> LossBlock],
          plcCalls |-> loss]

----------------------------------------------------------------------------
(* One iteration of the sub-chunk loop of OpusDecoder.Decode, as a         *)
(* function of the unread bytes, the decoder's currentFrame and the        *)
(* engine's verdicts.  exit: "next" (loop again), "break" (sentinel),      *)
(* "error" (return nil, err), "panic" (make with a negative length).       *)

Iter(exit, e, rest, frame, samples, frameCalls, plcCalls) ==
    [exit |-> exit, err |-> e, buf |-> rest, currentFrame |-> frame,
     samples |-> samples, frameCalls |-> frameCalls, plcCalls |-> plcCalls]

\* Sequence with the in-order frame leaving d.currentFrame alone
Sequence_NoAdvance(currentFrame, previousFrame, chunk, rest, ok, failAt) ==
    IF currentFrame >= previousFrame
    THEN IF currentFrame = previousFrame
         THEN LET r == decodeSteamChunk(chunk, ok) IN
              Iter(IF r.err = NoErr THEN "next" ELSE "error", r.err, rest,
                   previousFrame, r.samples, r.frameCalls, 0)
         ELSE LET r == decodeLoss(U16(currentFrame - previousFrame), failAt) IN
              Iter(IF r.err = NoErr THEN "next" ELSE "error", r.err, rest,
                   previousFrame, r.samples, 0, r.plcCalls)
    ELSE Iter("next", NoErr, rest, previousFrame, <<>>, 0, 0)

\* Sequence without the outer comparison: a stale frame is concealed like a gap
Sequence_NoStaleDrop(currentFrame, previousFrame, chunk, rest, ok, failAt) ==
    IF currentFrame = previousFrame
    THEN LET r == decodeSteamChunk(chunk, ok) IN
         Iter(IF r.err = NoErr THEN "next" ELSE "error", r.err, rest,
              U16(currentFrame + 1), r.samples, r.frameCalls, 0)
    ELSE LET r == decodeLoss(U16(currentFrame - previousFrame), failAt) IN
         Iter(IF r.err = NoErr THEN "next" ELSE "error", r.err, rest,
              previousFrame, r.samples, 0, r.plcCalls)

\* the frame comparison of Decode (lines 71-91) for a fully read sub-chunk
Sequence(currentFrame, previousFrame, chunk, rest, ok, failAt) ==
    IF currentFrame >= previousFrame
    THEN IF currentFrame = previousFrame
         THEN LET r == decodeSteamChunk(chunk, ok) IN
              Iter(IF r.err = NoErr THEN "next" ELSE "error", r.err, rest,
                   U16(currentFrame + 1), r.samples, r.frameCalls, 0)
         ELSE LET r == decodeLoss(U16(currentFrame - previousFrame), failAt) IN
              Iter(IF r.err = NoErr THEN "next" ELSE "error", r.err, rest,
                   previousFrame, r.samples, 0, r.plcCalls)
    ELSE Iter("next", NoErr, rest, previousFrame, <<>>, 0, 0)

\* SentinelExit without the reset of d.currentFrame
SentinelExit_KeepFrame(b, dFrame) ==
    Iter("break", NoErr, Drop(b, 2), dFrame, <<>>, 0, 0)

\* chunkLen = -1: d.currentFrame = 0 and break, whatever follows in b
SentinelExit(b, dFrame) == Iter("break", NoErr, Drop(b, 2), 0, <<>>, 0, 0)

DecodeIteration(b, dFrame, ok, failAt) ==
    IF Len(b) < 2
    THEN Iter("error", "io.ErrUnexpectedEOF", b, dFrame, <<>>, 0, 0)
    ELSE
    LET chunkLen == ReadI16(SubSeq(b, 1, 2)) IN
    IF chunkLen = -1
    THEN SentinelExit(b, dFrame)
    ELSE IF Len(b) < 4
    THEN Iter("error", IF Len(b) = 2 THEN "io.EOF" ELSE "io.ErrUnexpectedEOF",
              b, dFrame, <<>>, 0, 0)
    ELSE
    LET currentFrame == ReadU16(SubSeq(b, 3, 4))
        avail        == Len(b) - 4
    IN
    IF chunkLen < 0
    THEN Iter("panic", "makeslice: len out of range", b, dFrame, <<>>, 0, 0)
    ELSE IF avail = 0 /\ chunkLen > 0
    THEN Iter("error", "io.EOF", b, dFrame, <<>>, 0, 0)
    ELSE IF avail < chunkLen
    THEN Iter("error", ErrInvalidVoicePacket, b, dFrame, <<>>, 0, 0)
    ELSE Sequence(currentFrame, dFrame, SubSeq(b, 5, 4 + chunkLen),
                  Drop(b, 4 + chunkLen), ok, failAt)

----------------------------------------------------------------------------
(* Inputs: voice packets in the wire layout documented at DecodeChunk      *)
(* [u64 steamID][u8 payloadType][u16 sampleRate][u8 voiceType][u16 length] *)
(* [voice data][u32 crc32], and the sub-chunk streams                      *)
(* [i16 chunkLen][u16 frame][chunkLen bytes] carried as voice data.        *)

\* most payloads collected for the speaker
MaxPayloads == 2

SteamA == <<1, 16, 0, 1, 2, 3, 4, 5>>

SteamB == <<1, 16, 0, 1, 0, 0, 255, 254>>

\* one byte of codec data, different for different frame indices
Body(k) == <<(k % 250) + 1>>

SubChunk(chunkLen, frame, body) == PutI16(chunkLen) \o PutU16(frame) \o body

\* a well-formed sub-chunk declaring frame index k
F(k) == SubChunk(1, k, Body(k))

\* the reset sentinel: chunkLen = -1
Sentinel == PutI16(-1)

\* frame indices the streams declare
FrameIdx == {0, 1, 2, 5, 11, 20}

\* well-formed streams
GoodStreams ==
    {F(k) : k \in FrameIdx}
    \cup {F(0) \o F(1), F(0) \o F(0) \o F(1), F(0) \o F(20) \o F(21),
          F(0) \o F(11) \o F(1),
          Sentinel, F(1) \o Sentinel, F(0) \o Sentinel \o F(1),
          Sentinel \o <<9>>}

\* streams Decode rejects: truncated headers and bodies, an empty or a
\* negative-length sub-chunk, alone or after a decodable frame
BadTails ==
    {<<1>>, <<1, 0>>, <<1, 0, 0>>, SubChunk(2, 0, <<7>>), SubChunk(1, 0, <<>>),
     SubChunk(-2, 0, <<7>>)}

BadStreams == BadTails \cup {F(0) \o t : t \in BadTails}

Streams == GoodStreams \cup BadStreams

\* the checksum bytes a sender variant writes after body
Sum(body, ck) ==
    LET crc == ChecksumIEEE(body) IN
    CASE ck = "ok"   -> crc
      [] ck = "flip" -> <<255 - crc[1], 255 - crc[2], 255 - crc[3], 255 - crc[4]>>
      [] ck = "low"  -> <<crc[1], crc[2], crc[3], (crc[4] + 1) % 256>>
      [] ck = "high" -> <<(crc[1] + 128) % 256, crc[2], crc[3], crc[4]>>

\* how an input was made: the field values, the checksum variant and the
\* number of bytes kept (cut = -1: all)
Fields(steamID, ptype, rate, vtype, length, data, ck, cut) ==
    [steamID |-> steamID, ptype |-> ptype, rate |-> rate, vtype |-> vtype,
     length |-> length, data |-> data, ck |-> ck, cut |-> cut]

Layout(f) ==
    PutDigits(f.steamID) \o <<f.ptype>> \o PutU16(f.rate) \o <<f.vtype>>
        \o PutU16(f.length) \o f.data

Wire(f) ==
    LET whole == Layout(f) \o PutDigits(Sum(Layout(f), f.ck)) IN
    IF f.cut < 0 THEN whole ELSE Take(whole, f.cut)

\* a sender that follows the layout: length is the size of the voice data
\* for Opus, a frame count with no data for silence
Steam(vtype, length, data, ck) ==
    Fields(SteamA, PayloadTypeHeader, 24000, vtype, length, data, ck, -1)

Opus(data) == Steam(VoiceTypeOpusPLC, Len(data), data, "ok")

Silence(n) == Steam(VoiceTypeSilence, n, <<>>, "ok")

\* the payloads a demo delivers for the speaker in the sequenced runs
PacketSet ==
    {Opus(d) : d \in Streams}
    \cup {Opus(<<>>), Silence(0), Silence(3),
          Steam(VoiceTypeOpusPLC, 5, F(0), "flip"),
          Steam(5, 5, F(0), "ok"),
          Fields(SteamA, 10, 24000, VoiceTypeOpusPLC, 5, F(0), "ok", -1),
          Fields(SteamA, PayloadTypeHeader, 24000, VoiceTypeOpusPLC, 5, F(0), "ok", 17)}

\* the inputs of the packet-parsing runs: every combination of field values,
\* declared lengths that agree or disagree with the data, checksum variants
\* and truncations
RawFields ==
    { Fields(s, t, r, v, l, d, ck, cut) :
        s \in {SteamA, SteamB}, t \in {PayloadTypeHeader, 10},
        r \in {24000, 48000}, v \in {VoiceTypeSilence, VoiceTypeOpusPLC, 5},
        l \in {0, 1, 5, 6, 15, 300}, d \in {<<>>, <<9>>, F(0), F(0) \o F(0) \o F(1)},
        ck \in {"ok", "flip", "low", "high"}, cut \in {-1, 0, 10, 17, 18} }

AllFields == PacketSet \cup RawFields

\* the wire bytes of the sequenced runs' payloads, tabulated once
WireOf == [f \in PacketSet |-> Wire(f)] @@ <<>>

----------------------------------------------------------------------------
(* State of one speaker's extraction                                       *)

VARIABLES
    payloads,      \* voiceDataPerPlayer[steamId]: the raw payloads, in arrival order
    made,          \* history: how each payload was made (Fields), same order
    pc,            \* control: "collect", "init", "range", "decode", "write",
                   \*          "done", "panic"
    idx,           \* 1-based position of the range loop in payloads
    c,             \* the *Chunk of the current loop iteration
    buf,           \* Decode: unread bytes of c.Data
    output,        \* Decode: samples decoded so far from c.Data
    currentFrame,  \* voiceDecoder.currentFrame
    o,             \* samples accumulated for the WAV file
    err,           \* error returned by convertAudioDataToWavFiles (NoErr: none yet)
    file,          \* the file at fileName: "absent", "old", "created", "written",
                   \*   "unclosed" (written, but the encoder's Close failed)
    frameCalls,    \* engine: DecodeFloat32 calls made so far
    plcCalls,      \* engine: DecodePLCFloat32 calls made so far
    log,           \* slog records of the skipped and failed steps (message, subject)
    opts,          \* ExtractVoiceData: the ExtractOptions
    voiceDataFormat,     \* ExtractVoiceData: the format of the last voice message
    voiceDataPerPlayer,  \* ExtractVoiceData: steamId -> payloads, in arrival order
    heard,         \* history: steamId -> how each of its messages was made
    fs,            \* the files: path -> content, as of the last return to
                   \* ExtractVoiceData (file is the one a run is writing)
    effects,       \* what ExtractVoiceData did to its environment so far
    xpc,           \* control of ExtractVoiceData: "start", "open", "parse",
                   \*   "outdir", "tempdir", "loop", "player", "returned"
    todo,          \* the players the range over voiceDataPerPlayer has not visited
    playerId,      \* the player of the current iteration
    result         \* what ExtractVoiceData returned ("running": not yet)

\* the variables of ExtractVoiceData outside a speaker's run
evars == <<opts, voiceDataFormat, voiceDataPerPlayer, heard, fs, effects,
           xpc, todo, playerId, result>>

xvars == <<log, evars>>

vars == <<payloads, made, pc, idx, c, buf, output, currentFrame, o, err, file,
          frameCalls, plcCalls, xvars>>

\* a string as its characters: strings.ToLower and the comparisons of
\* validateFormat work on them
wav == <<"w", "a", "v">>

\* one speaker's run looked at alone: ExtractVoiceData stands in its range
\* loop, at the call of the speaker's pipeline
FormatSteam == "VOICEDATA_FORMAT_STEAM"

FormatOpus == "VOICEDATA_FORMAT_OPUS"

Outside(format) ==
    /\ log = <<>>
    /\ opts = [DemoPath |-> "match.dem", OutputDir |-> "cwd",
               ForceOverwrite |-> FALSE, PlayerIDs |-> <<>>, Format |-> wav]
    /\ voiceDataFormat = format
    /\ voiceDataPerPlayer = <<>>
    /\ heard = <<>>
    /\ fs = <<>>
    /\ effects = {}
    /\ xpc = "player"
    /\ todo = {}
    /\ playerId = "1"
    /\ result = "running"

\* what the run has not touched yet
Fresh ==
    /\ idx = 1
    /\ c = NilChunk
    /\ buf = <<>>
    /\ output = <<>>
    /\ currentFrame = 0
    /\ o = <<>>
    /\ err = NoError
    /\ file = "absent"
    /\ frameCalls = 0
    /\ plcCalls = 0

Init ==
    /\ Outside(FormatSteam)
    /\ payloads = <<>>
    /\ made = <<>>
    /\ pc = "collect"
    /\ Fresh

\* the net-message handler: append the delivered payload to the speaker's list
CollectPayload ==
    /\ UNCHANGED xvars
    /\ pc = "collect"
    /\ Len(payloads) < MaxPayloads
    /\ \E f \in PacketSet :
          /\ payloads' = Append(payloads, WireOf[f])
          /\ made' = Append(made, f)
    /\ UNCHANGED <<pc, idx, c, buf, output, currentFrame, o, err, file,
                   frameCalls, plcCalls>>

\* ParseToEnd returns; the speaker has at least one payload
ParseToEnd ==
    /\ UNCHANGED xvars
    /\ pc = "collect"
    /\ Len(payloads) >= 1
    /\ pc' = "init"
    /\ UNCHANGED <<payloads, made, idx, c, buf, output, currentFrame, o, err,
                   file, frameCalls, plcCalls>>

\* convertAudioDataToWavFiles, lines 363-367: NewOpusDecoder and the empty o
NewOpusDecoder ==
    /\ UNCHANGED xvars
    /\ pc = "init"
    /\ \E ok \in BOOLEAN :
          IF ok
          THEN /\ pc' = "range"
               /\ err' = err
          ELSE /\ pc' = "done"
               /\ err' = Wrap("failed to initialize OpusDecoder", "CodecError")
    /\ currentFrame' = 0
    /\ o' = <<>>
    /\ UNCHANGED <<payloads, made, idx, c, buf, output, file, frameCalls, plcCalls>>

\* FrameVoiceKind that takes every Chunk for encoded audio
FrameVoiceKind_AlwaysAudio(chunk) == VoiceTypeOpusPLC

\* the voice kind the range loop reads off a Chunk: the Chunk has no
\* voice-type field, "not a silent frame" is len(c.Data) > 0
FrameVoiceKind(chunk) ==
    IF Len(chunk.Data) > 0 THEN VoiceTypeOpusPLC ELSE VoiceTypeSilence

\* ChunkBranch without the len(c.Data) > 0 test
ChunkBranch_DecodeAlways(r) ==
    IF r.err # NoErr THEN "fail"
    ELSE IF r.chunk # NilChunk THEN "decode"
    ELSE "skip"

\* what the range loop does with the result r of DecodeChunk(payload)
\* ("fail": return the error, "decode": call voiceDecoder.Decode(c.Data),
\*  "skip": next payload)
ChunkBranch(r) ==
    IF r.err # NoErr THEN "fail"
    ELSE IF r.chunk # NilChunk /\ FrameVoiceKind(r.chunk) = VoiceTypeOpusPLC
        THEN "decode"
    ELSE "skip"

\* lines 368-373: the next payload of the range loop goes through DecodeChunk
NextPayload ==
    /\ UNCHANGED xvars
    /\ pc = "range"
    /\ idx <= Len(payloads)
    /\ \E r \in {DecodeChunk(payloads[idx])} :
          /\ c' = r.chunk
          /\ CASE ChunkBranch(r) = "fail" ->
                    /\ err' = Wrap("failed to decode chunk", r.err)
                    /\ pc' = "done"
                    /\ UNCHANGED <<idx, buf, output>>
               [] ChunkBranch(r) = "decode" ->
                    /\ buf' = r.chunk.Data
                    /\ output' = <<>>
                    /\ pc' = "decode"
                    /\ UNCHANGED <<idx, err>>
               [] ChunkBranch(r) = "skip" ->
                    /\ idx' = idx + 1
                    /\ UNCHANGED <<pc, err, buf, output>>
    /\ UNCHANGED <<payloads, made, currentFrame, o, file, frameCalls, plcCalls>>

\* DecodeReturns that keeps what the failed call had decoded so far
DecodeReturns_KeepPartial(samples, e) ==
    IF e # NoErr
    THEN /\ err' = Wrap("failed to decode Opus frame", e)
         /\ pc' = "done"
         /\ o' = o \o output
         /\ idx' = idx
    ELSE /\ o' = o \o samples
         /\ idx' = idx + 1
         /\ pc' = "range"
         /\ err' = err

\* DecodeReturns that puts the new samples in front of the old ones
DecodeReturns_Prepend(samples, e) ==
    IF e # NoErr
    THEN /\ err' = Wrap("failed to decode Opus frame", e)
         /\ pc' = "done"
         /\ UNCHANGED <<idx, o>>
    ELSE /\ o' = samples \o o
         /\ idx' = idx + 1
         /\ pc' = "range"
         /\ err' = err

\* what the range loop does when Decode returns (samples, e)
DecodeReturns(samples, e) ==
    IF e # NoErr
    THEN /\ err' = Wrap("failed to decode Opus frame", e)
         /\ pc' = "done"
         /\ UNCHANGED <<idx, o>>
    ELSE /\ o' = o \o samples
         /\ idx' = idx + 1
         /\ pc' = "range"
         /\ err' = err

\* Decode, one iteration of `for buf.Len() != 0` on a non-empty buffer
DecodeSubChunk ==
    /\ UNCHANGED xvars
    /\ pc = "decode"
    /\ buf # <<>>
    /\ \E ok \in BOOLEAN, failAt \in 0..MaxLoss :
          \E it \in {DecodeIteration(buf, currentFrame, ok, failAt)} :
          /\ buf' = it.buf
          /\ currentFrame' = it.currentFrame
          /\ frameCalls' = frameCalls + it.frameCalls
          /\ plcCalls' = plcCalls + it.plcCalls
          /\ CASE it.exit = "next" ->
                    /\ output' = output \o it.samples
                    /\ UNCHANGED <<pc, idx, o, err>>
               [] it.exit = "break" ->
                    /\ output' = output
                    /\ DecodeReturns(output, NoErr)
               [] it.exit = "error" ->
                    /\ output' = output
                    /\ DecodeReturns(<<>>, it.err)
               [] it.exit = "panic" ->
                    /\ output' = output
                    /\ pc' = "panic"
                    /\ UNCHANGED <<idx, o, err>>
    /\ UNCHANGED <<payloads, made, c, file>>

\* Decode, the loop condition fails: return output, nil
DecodeDone ==
    /\ UNCHANGED xvars
    /\ pc = "decode"
    /\ buf = <<>>
    /\ DecodeReturns(output, NoErr)
    /\ UNCHANGED <<payloads, made, c, buf, output, currentFrame, file,
                   frameCalls, plcCalls>>

\* the range loop is over
RangeDone ==
    /\ UNCHANGED xvars
    /\ pc = "range"
    /\ idx > Len(payloads)
    /\ pc' = "write"
    /\ UNCHANGED <<payloads, made, idx, c, buf, output, currentFrame, o, err,
                   file, frameCalls, plcCalls>>

\* lines 385-402 (and 425-443): os.Create, wav encoder Write and Close; the
\* errors of enc.Close() and of the deferred file Close are not looked at
WriteWav ==
    /\ UNCHANGED xvars
    /\ pc = "write"
    /\ \E created \in BOOLEAN, written \in BOOLEAN, closed \in BOOLEAN :
          /\ file' = IF ~created THEN file
                     ELSE IF ~written THEN "created"
                     ELSE IF closed THEN "written" ELSE "unclosed"
          /\ err' = IF ~created THEN Wrap("failed to create wav file", "os")
                    ELSE IF ~written THEN Wrap("failed to write WAV data", "wav")
                    ELSE err
    /\ pc' = "done"
    /\ UNCHANGED <<payloads, made, idx, c, buf, output, currentFrame, o,
                   frameCalls, plcCalls>>

\* decoder.Decode(decoder, data): one DecodeFloat32 call on the whole
\* payload; ok is the engine's verdict
Decode(data, ok) ==
    IF ok THEN [err |-> NoErr, samples |-> <<DecodedBlock(data)>>]
    ELSE [err |-> "CodecError", samples |-> <<>>]

\* opusToWav, lines 408-412: decoder.NewDecoder and the empty pcmBuffer
NewDecoder ==
    /\ pc = "opusInit"
    /\ \E ok \in BOOLEAN :
          IF ok
          THEN /\ pc' = "opus"
               /\ err' = err
          ELSE /\ pc' = "done"
               /\ err' = Wrap("failed to initialize OpusDecoder", "CodecError")
    /\ o' = <<>>
    /\ UNCHANGED <<payloads, made, idx, c, buf, output, currentFrame, file,
                   frameCalls, plcCalls, xvars>>

\* DirectAppend that loses the samples so far when a payload fails
DirectAppend_FailureResets(pcmBuffer, r) ==
    IF r.err # NoErr THEN <<>> ELSE pcmBuffer \o r.samples

\* pcmBuffer after the payload whose decode gave r (lines 415-423)
DirectAppend(pcmBuffer, r) ==
    IF r.err # NoErr THEN pcmBuffer ELSE pcmBuffer \o r.samples

\* opusToWav, lines 413-424: one payload of the range loop; a failed decode
\* is logged (the record keeps the payload's position) and the loop goes on
OpusPayload ==
    /\ pc = "opus"
    /\ idx <= Len(payloads)
    /\ \E ok \in BOOLEAN :
          \E r \in {Decode(payloads[idx], ok)} :
             /\ o' = DirectAppend(o, r)
             /\ log' = IF r.err # NoErr
                       THEN Append(log, <<"Failed to decode Opus data", idx>>)
                       ELSE log
    /\ frameCalls' = frameCalls + 1
    /\ idx' = idx + 1
    /\ UNCHANGED <<payloads, made, pc, c, buf, output, currentFrame, err, file,
                   plcCalls, evars>>

\* opusToWav: the range loop is over
OpusRangeDone ==
    /\ pc = "opus"
    /\ idx > Len(payloads)
    /\ pc' = "write"
    /\ UNCHANGED <<payloads, made, idx, c, buf, output, currentFrame, o, err,
                   file, frameCalls, plcCalls, xvars>>

\* the steps of convertAudioDataToWavFiles
Run ==
    \/ NewOpusDecoder
    \/ NextPayload
    \/ DecodeSubChunk
    \/ DecodeDone
    \/ RangeDone
    \/ WriteWav

Next ==
    \/ CollectPayload
    \/ ParseToEnd
    \/ Run

Spec == Init /\ [][Next]_vars

\* the same runs with their scheduling: the demo is finite, so the parser
\* delivers its messages and returns, and convertAudioDataToWavFiles is one
\* sequential call that takes its next step as long as it has one
SpecTerm ==
    /\ Init
    /\ [][Next]_vars
    /\ WF_vars(CollectPayload \/ ParseToEnd)
    /\ WF_vars(NewOpusDecoder \/ DecodeSubChunk \/ DecodeDone \/ RangeDone \/ WriteWav)
    /\ ([]<>~(pc = "range" /\ idx <= Len(payloads)) \/ []<><<NextPayload>>_vars)

\* packet parsing alone: one payload made from any combination of fields
InitChunk ==
    /\ Outside(FormatSteam)
    /\ \E f \in AllFields :
          /\ payloads = <<Wire(f)>>
          /\ made = <<f>>
    /\ pc = "init"
    /\ Fresh

NextChunk ==
    \/ NewOpusDecoder
    \/ NextPayload
    \/ DecodeSubChunk
    \/ DecodeDone
    \/ RangeDone
    \/ WriteWav

SpecChunk == InitChunk /\ [][NextChunk]_vars

\* most payloads of a speaker in the single-frame runs
MaxFrames == 3

\* the wire bytes of the packet carrying the single sub-chunk of index k
WireOfFrame == [k \in 0..(MaxFrames - 1) |-> Wire(Opus(F(k)))] @@ <<>>

\* the declared indices of a speaker's payloads, one sub-chunk each: every
\* order, with repetitions and omissions
IndexLists == UNION {[1..n -> 0..(MaxFrames - 1)] : n \in 1..MaxFrames}

\* single-frame runs: the speaker's list is given, the run starts
InitStream ==
    /\ Outside(FormatSteam)
    /\ \E ks \in IndexLists :
          /\ payloads = [i \in DOMAIN ks |-> WireOfFrame[ks[i]]]
          /\ made = [i \in DOMAIN ks |-> Opus(F(ks[i]))]
    /\ pc = "init"
    /\ Fresh

NextStream ==
    \/ NewOpusDecoder
    \/ NextPayload
    \/ DecodeSubChunk
    \/ DecodeDone
    \/ RangeDone
    \/ WriteWav

SpecStream == InitStream /\ [][NextStream]_vars

\* payloads of the direct pipeline: bare codec frames, an empty payload, and
\* bytes that would be a packet or a sub-chunk in the sequenced pipeline
DirectPayloads == {<<1>>, <<2>>, <<>>, F(5), Wire(Opus(F(0)))}

DirectLists == UNION {[1..n -> DirectPayloads] : n \in 1..MaxPayloads}

\* the direct pipeline alone: opusToWav is called with the speaker's list
InitDirect ==
    /\ Outside(FormatOpus)
    /\ \E l \in DirectLists :
          /\ payloads = l
          /\ made = [i \in DOMAIN l |-> [raw |-> l[i]]]
    /\ pc = "opusInit"
    /\ Fresh

NextDirect ==
    \/ NewDecoder
    \/ OpusPayload
    \/ OpusRangeDone
    \/ WriteWav

SpecDirect == InitDirect /\ [][NextDirect]_vars

\* the frame indices a long stream is looked at: the last ones of the uint16
\* range
LateFrames == {65533, 65534, 65535}

\* the payloads that follow at that point of the stream
LatePackets ==
    {Opus(F(65534)), Opus(F(65535)), Opus(F(0)), Opus(F(65535) \o F(0)),
     Opus(F(65534) \o Sentinel), Opus(F(65533))}

WireOfLate == [f \in LatePackets |-> Wire(f)] @@ <<>>

\* the payload lists that follow: 1 .. MaxPayloads of LatePackets
LateLists == UNION {[1..n -> LatePackets] : n \in 1..MaxPayloads}

\* a long stream: the range loop at the point where voiceDecoder has taken k
\* in-order frames 0 .. k - 1 without a sentinel (each one sets
\* d.currentFrame = currentFrame + 1, so d.currentFrame = k).  What came
\* before is left out: payloads are those still to come, o and the codec
\* call counts are those from this point on.
InitLate ==
    /\ Outside(FormatSteam)
    /\ \E l \in LateLists :
          /\ payloads = [i \in DOMAIN l |-> WireOfLate[l[i]]]
          /\ made = l
    /\ pc = "range"
    /\ idx = 1
    /\ c = NilChunk
    /\ buf = <<>>
    /\ output = <<>>
    /\ currentFrame \in LateFrames
    /\ o = <<>>
    /\ err = NoError
    /\ file = "absent"
    /\ frameCalls = 0
    /\ plcCalls = 0

NextLate ==
    \/ NextPayload
    \/ DecodeSubChunk
    \/ DecodeDone
    \/ RangeDone
    \/ WriteWav

SpecLate == InitLate /\ [][NextLate]_vars

----------------------------------------------------------------------------
(* ExtractVoiceData: options, the demo's voice messages, the range over    *)
(* the players and the files.  Strings that the code transforms or         *)
(* compares piecewise (the format) are sequences of characters.            *)

ErrNoVoiceData == "ErrNoVoiceData"

ErrInvalidFormat == "ErrInvalidFormat"

ErrFFMPEGNotFound == "ErrFFMPEGNotFound"

supportedFormats ==
    << <<"w", "a", "v">>, <<"m", "p", "3">>, <<"o", "g", "g">>,
       <<"f", "l", "a", "c">>, <<"a", "a", "c">>, <<"m", "4", "a">> >>

UpperCase ==
    <<"A", "B", "C", "D", "E", "F", "G", "H", "I", "J", "K", "L", "M",
      "N", "O", "P", "Q", "R", "S", "T", "U", "V", "W", "X", "Y", "Z">>

LowerCase ==
    <<"a", "b", "c", "d", "e", "f", "g", "h", "i", "j", "k", "l", "m",
      "n", "o", "p", "q", "r", "s", "t", "u", "v", "w", "x", "y", "z">>

\* the lower-case form of one character
LowerChar(ch) ==
    IF \E i \in DOMAIN UpperCase : UpperCase[i] = ch
    THEN LowerCase[CHOOSE i \in DOMAIN UpperCase : UpperCase[i] = ch]
    ELSE ch

\* ToLower that leaves the string as it is
ToLower_Identity(str) == str

\* strings.ToLower
ToLower(str) == [i \in DOMAIN str |-> LowerChar(str[i])]

\* validateFormat: nil for a supported format, else an error wrapping
\* ErrInvalidFormat
validateFormat(format) ==
    IF \E i \in DOMAIN supportedFormats : supportedFormats[i] = format
    THEN NoError
    ELSE Wrap("(supported formats: wav, mp3, ogg, flac, aac, m4a)", ErrInvalidFormat)

\* sanitizeFilename on a player id: the id is strconv.Itoa of an int, digits
\* with a possible minus sign, so no character is replaced or trimmed and
\* only the fallback for the empty name is left
sanitizeFilename(name) == IF name = "" THEN "player" ELSE name

\* filepath.Join(dir, name.ext)
Path(dir, name, ext) == <<dir, name, ext>>

\* the directory os.Getwd returns and the one os.MkdirTemp makes
Cwd == "cwd"

TempDir == "tmp"

finalOutputPath(options, id) ==
    Path(options.OutputDir, sanitizeFilename(id), options.Format)

tempWavPath(options, id) ==
    IF options.Format = wav THEN finalOutputPath(options, id)
    ELSE Path(TempDir, sanitizeFilename(id), wav)

\* the set of the ids in opts.PlayerIDs (the keys of the playerFilter map)
playerFilter == {opts.PlayerIDs[i] : i \in DOMAIN opts.PlayerIDs}

\* Filtered that also skips everybody when no filter is given
Filtered_EmptySkipsAll(filter, id) == id \notin filter

\* line 225: the player is skipped by the filter
Filtered(filter, id) == filter # {} /\ id \notin filter

\* SkipExisting that does not look at ForceOverwrite
SkipExisting_IgnoreForce(exists, force) == exists

\* line 253: os.Stat found the file and ForceOverwrite is off
SkipExisting(exists, force) == exists /\ ~force

\* map lookup with the zero value for a missing key
Get(m, k) == IF k \in DOMAIN m THEN m[k] ELSE <<>>

\* map assignment
Put(m, k, v) == (k :> v) @@ m

RECURSIVE Delivered(_, _)
\* number of payloads in the map m over the keys ks
Delivered(m, ks) ==
    IF ks = {} THEN 0
    ELSE LET k == CHOOSE x \in ks : TRUE
         IN Len(m[k]) + Delivered(m, ks \ {k})

\* most voice messages in a demo
MaxMessages == 2

\* the speakers' xuids, the format tags and the payloads of the messages
Xuids == {1, 2}

MsgFormats == {FormatSteam, FormatOpus, "VOICEDATA_FORMAT_ENGINE"}

MsgPackets == {Opus(F(0))}

\* the options of the extraction runs
OptionSet ==
    [DemoPath : {"", "match.dem"}, OutputDir : {"", Cwd},
     ForceOverwrite : BOOLEAN, PlayerIDs : {<<>>, <<"1">>, <<"3">>},
     Format : {<<>>, <<"W", "A", "V">>, <<"m", "p", "3">>, <<"t", "x", "t">>}]

\* a file that was there before the run; what is in it is not looked at
OldFile == [state |-> "old", samples |-> <<>>]

\* the output files that are there before the run: those of no player, of
\* player 1, of players 1 and 2, at the final paths the options lead to
OldFiles(options) ==
    LET final == [options EXCEPT
                    !.OutputDir = IF @ = "" THEN Cwd ELSE @,
                    !.Format = IF @ = <<>> THEN wav ELSE ToLower(@)]
    IN { [q \in {finalOutputPath(final, id) : id \in ids} |-> OldFile] :
           ids \in {{}, {"1"}, {"1", "2"}} }

\* ExtractVoiceData has not started: no speaker's run is going on
NotStarted ==
    /\ log = <<>>
    /\ voiceDataFormat = ""
    /\ voiceDataPerPlayer = <<>>
    /\ heard = <<>>
    /\ effects = {}
    /\ xpc = "start"
    /\ todo = {}
    /\ playerId = ""
    /\ result = "running"
    /\ payloads = <<>>
    /\ made = <<>>
    /\ pc = "idle"
    /\ Fresh

InitExtract ==
    /\ opts \in OptionSet
    /\ fs \in OldFiles(opts)
    /\ NotStarted

\* the variables of a speaker's run
rvars == <<payloads, made, pc, idx, c, buf, output, currentFrame, o, err, file,
           frameCalls, plcCalls>>

\* return e
Return(e) ==
    /\ result' = e
    /\ xpc' = "returned"

\* lines 138-171: DemoPath, OutputDir (os.Getwd) and Format
ValidateOptions ==
    /\ xpc = "start"
    /\ \E cwdOk \in BOOLEAN :
          IF opts.DemoPath = ""
          THEN /\ Return(Wrap("demo path is required", NoErr))
               /\ opts' = opts
          ELSE IF opts.OutputDir = "" /\ ~cwdOk
          THEN /\ Return(Wrap("failed to get current directory", "os"))
               /\ opts' = opts
          ELSE
          LET dir    == IF opts.OutputDir = "" THEN Cwd ELSE opts.OutputDir
              format == IF opts.Format = <<>> THEN wav ELSE ToLower(opts.Format)
              e      == IF opts.Format = <<>> THEN NoError
                        ELSE validateFormat(format)
          IN /\ opts' = [opts EXCEPT !.OutputDir = dir, !.Format = format]
             /\ IF e # NoError THEN Return(e)
                ELSE /\ xpc' = "open"
                     /\ result' = result
    /\ UNCHANGED <<rvars, log, voiceDataFormat, voiceDataPerPlayer, heard, fs,
                   effects, todo, playerId>>

\* lines 173-181: os.Open(opts.DemoPath) and the parser
OpenDemo ==
    /\ xpc = "open"
    /\ \E ok \in BOOLEAN :
          IF ok
          THEN /\ effects' = effects \cup {"open"}
               /\ xpc' = "parse"
               /\ result' = result
          ELSE /\ Return(Wrap("failed to open demo file", "os"))
               /\ effects' = effects
    /\ UNCHANGED <<rvars, log, opts, voiceDataFormat, voiceDataPerPlayer, heard,
                   fs, todo, playerId>>

\* VoiceData that also runs between the players' pipelines
VoiceData_WhileDecoding ==
    /\ xpc \in {"parse", "loop"}
    /\ Delivered(voiceDataPerPlayer, DOMAIN voiceDataPerPlayer) < MaxMessages
    /\ \E xuid \in Xuids, format \in MsgFormats, f \in MsgPackets :
          LET steamId == ToString(xuid) IN
          /\ voiceDataFormat' = format
          /\ voiceDataPerPlayer' =
                Put(voiceDataPerPlayer, steamId,
                    Append(Get(voiceDataPerPlayer, steamId), WireOf[f]))
          /\ heard' = Put(heard, steamId,
                          Append(Get(heard, steamId),
                                 [format |-> format, made |-> f]))
    /\ UNCHANGED <<rvars, log, opts, fs, effects, xpc, todo, playerId, result>>

\* lines 183-187: the net-message handler, called by ParseToEnd for each
\* CSVCMsg_VoiceData of the demo
VoiceData ==
    /\ xpc = "parse"
    /\ Delivered(voiceDataPerPlayer, DOMAIN voiceDataPerPlayer) < MaxMessages
    /\ \E xuid \in Xuids, format \in MsgFormats, f \in MsgPackets :
          LET steamId == ToString(xuid) IN
          /\ voiceDataFormat' = format
          /\ voiceDataPerPlayer' =
                Put(voiceDataPerPlayer, steamId,
                    Append(Get(voiceDataPerPlayer, steamId), WireOf[f]))
          /\ heard' = Put(heard, steamId,
                          Append(Get(heard, steamId),
                                 [format |-> format, made |-> f]))
    /\ UNCHANGED <<rvars, log, opts, fs, effects, xpc, todo, playerId, result>>

\* lines 189-206: ParseToEnd returns; perr is its error
ParseReturns ==
    /\ xpc = "parse"
    /\ \E perr \in {NoErr, "ErrCancelled", "ErrUnexpectedEndOfDemo",
                     "ErrInvalidFileType", "other"} :
          IF perr # NoErr
          THEN Return(Wrap(CASE perr = "ErrCancelled" -> "parsing was cancelled"
                             [] perr = "ErrUnexpectedEndOfDemo" ->
                                   "demo file ended unexpectedly (may be corrupt)"
                             [] perr = "ErrInvalidFileType" -> "invalid demo file type"
                             [] OTHER -> "unknown error parsing demo",
                           perr))
          ELSE IF DOMAIN voiceDataPerPlayer = {}
          THEN Return(Wrap("", ErrNoVoiceData))
          ELSE /\ xpc' = "outdir"
               /\ result' = result
    /\ UNCHANGED <<rvars, log, opts, voiceDataFormat, voiceDataPerPlayer, heard,
                   fs, effects, todo, playerId>>

\* lines 104-133 and 208-211: the output directory is there or is made, and
\* a test file can be written to it and is removed
checkOutputDirectory ==
    /\ xpc = "outdir"
    /\ \E ok \in BOOLEAN :
          IF ok
          THEN /\ effects' = effects \cup {"outdir"}
               /\ xpc' = "tempdir"
               /\ result' = result
          ELSE /\ Return(Wrap("output directory issue", "os"))
               /\ effects' = effects
    /\ UNCHANGED <<rvars, log, opts, voiceDataFormat, voiceDataPerPlayer, heard,
                   fs, todo, playerId>>

\* lines 213-223: os.MkdirTemp, then the range over voiceDataPerPlayer starts
MkdirTemp ==
    /\ xpc = "tempdir"
    /\ \E ok \in BOOLEAN :
          IF ok
          THEN /\ effects' = effects \cup {"tempdir"}
               /\ xpc' = "loop"
               /\ todo' = DOMAIN voiceDataPerPlayer
               /\ result' = result
          ELSE /\ Return(Wrap("failed to create temporary directory", "os"))
               /\ effects' = effects
               /\ todo' = todo
    /\ UNCHANGED <<rvars, log, opts, voiceDataFormat, voiceDataPerPlayer, heard,
                   fs, playerId>>

\* continue: the iteration of the range over the players ends without a
\* pipeline run, with a log record
Continue(record) ==
    /\ log' = Append(log, record)
    /\ xpc' = "loop"
    /\ UNCHANGED rvars

\* Call of a pipeline that creates the output file before its range loop
Call_CreateFirst(p, entry) ==
    /\ payloads' = voiceDataPerPlayer[p]
    /\ made' = [i \in DOMAIN heard[p] |-> heard[p][i].made]
    /\ pc' = entry
    /\ idx' = 1
    /\ c' = NilChunk
    /\ buf' = <<>>
    /\ output' = <<>>
    /\ currentFrame' = 0
    /\ o' = <<>>
    /\ err' = NoError
    /\ file' = "created"
    /\ xpc' = "player"
    /\ UNCHANGED <<frameCalls, plcCalls, log>>

\* the pipeline starting at entry is called with the player's payloads and
\* tempWavPath
Call(p, entry) ==
    /\ payloads' = voiceDataPerPlayer[p]
    /\ made' = [i \in DOMAIN heard[p] |-> heard[p][i].made]
    /\ pc' = entry
    /\ idx' = 1
    /\ c' = NilChunk
    /\ buf' = <<>>
    /\ output' = <<>>
    /\ currentFrame' = 0
    /\ o' = <<>>
    /\ err' = NoError
    /\ file' = IF tempWavPath(opts, p) \in DOMAIN fs THEN "old" ELSE "absent"
    /\ xpc' = "player"
    /\ UNCHANGED <<frameCalls, plcCalls, log>>

\* lines 223-279: one player of the range over voiceDataPerPlayer (in any
\* order), up to the call of a pipeline; statErr: os.Stat fails with an
\* error other than "does not exist"
RangePlayer ==
    /\ xpc = "loop"
    /\ \E p \in todo, statErr \in BOOLEAN :
          /\ todo' = todo \ {p}
          /\ playerId' = p
          /\ IF Filtered(playerFilter, p)
             THEN Continue(<<"Skipping player (not in filter)", p>>)
             ELSE IF SkipExisting(~statErr /\ finalOutputPath(opts, p) \in DOMAIN fs,
                                  opts.ForceOverwrite)
             THEN Continue(<<"File already exists, skipping", p>>)
             ELSE IF statErr
             THEN Continue(<<"Failed to check file existence", p>>)
             ELSE IF voiceDataFormat = FormatOpus THEN Call(p, "opusInit")
             ELSE IF voiceDataFormat = FormatSteam THEN Call(p, "init")
             ELSE Continue(<<"Unknown voice data format", voiceDataFormat>>)
    /\ UNCHANGED <<opts, voiceDataFormat, voiceDataPerPlayer, heard, fs, effects,
                   result>>

\* lines 266-305: the pipeline returned err; the file it made is at
\* tempWavPath; for a format other than wav convertAudioToFormat (ffmpeg)
\* makes the final file from it, is not found, or fails
PlayerReturns ==
    /\ xpc = "player"
    /\ pc = "done"
    /\ LET temp  == tempWavPath(opts, playerId)
           final == finalOutputPath(opts, playerId)
           fs1   == IF file \in {"created", "written", "unclosed"}
                    THEN Put(fs, temp, [state |-> file,
                                        samples |-> IF file = "created" THEN <<>> ELSE o])
                    ELSE fs
       IN IF err # NoError
          THEN /\ fs' = fs1
               /\ log' = Append(log, <<IF voiceDataFormat = FormatOpus
                                       THEN "Failed to initialize OpusDecoder"
                                       ELSE "Failed to write WAV file", playerId>>)
          ELSE IF opts.Format = wav
          THEN /\ fs' = fs1
               /\ log' = log
          ELSE \E conv \in {"ok", ErrFFMPEGNotFound, "ffmpeg conversion failed"} :
                  IF conv = "ok"
                  THEN /\ fs' = Put(fs1, final, [state |-> "converted", samples |-> o])
                       /\ log' = log
                  ELSE /\ fs' = fs1
                       /\ log' = Append(log, <<"Failed to convert audio format", playerId>>)
    /\ xpc' = "loop"
    /\ pc' = "idle"
    /\ UNCHANGED <<payloads, made, idx, c, buf, output, currentFrame, o, err, file,
                   frameCalls, plcCalls>>
    /\ UNCHANGED <<opts, voiceDataFormat, voiceDataPerPlayer, heard, effects, todo,
                   playerId, result>>

\* lines 308-329: the range is over; the requested players without voice
\* data are logged, the deferred os.RemoveAll(tempDir) runs, return nil
ExtractReturns ==
    /\ xpc = "loop"
    /\ todo = {}
    /\ log' = IF playerFilter \ DOMAIN voiceDataPerPlayer # {}
              THEN Append(log, <<"Requested player not found in demo",
                                 playerFilter \ DOMAIN voiceDataPerPlayer>>)
              ELSE log
    /\ fs' = [q \in {x \in DOMAIN fs : x[1] # TempDir} |-> fs[q]]
    /\ Return(NoError)
    /\ UNCHANGED <<rvars, opts, voiceDataFormat, voiceDataPerPlayer, heard, effects,
                   todo, playerId>>

NextExtract ==
    \/ ValidateOptions
    \/ OpenDemo
    \/ VoiceData
    \/ ParseReturns
    \/ checkOutputDirectory
    \/ MkdirTemp
    \/ RangePlayer
    \/ NewOpusDecoder
    \/ NextPayload
    \/ DecodeSubChunk
    \/ DecodeDone
    \/ RangeDone
    \/ NewDecoder
    \/ OpusPayload
    \/ OpusRangeDone
    \/ WriteWav
    \/ PlayerReturns
    \/ ExtractReturns

SpecExtract == InitExtract /\ [][NextExtract]_vars

\* the payloads of the runs that look at the output file: decodable frames,
\* silence, a packet with a wrong checksum, a packet whose voice data ends in
\* a truncated sub-chunk
FilePackets ==
    {Opus(F(0)), Opus(F(1)), Silence(3),
     Steam(VoiceTypeOpusPLC, 5, F(0), "flip"), Opus(F(0) \o <<1>>)}

FileLists == UNION {[1..n -> FilePackets] : n \in 1..MaxPayloads}

\* a pipeline and the output file: ExtractVoiceData stands before its range
\* over the players, after a demo in which player 1 alone spoke, all
\* messages tagged STEAM or all tagged OPUS; the output file is there or not,
\* ForceOverwrite is on or off, the format is wav or mp3
InitFiles ==
    /\ opts \in [DemoPath : {"match.dem"}, OutputDir : {Cwd},
                  ForceOverwrite : BOOLEAN, PlayerIDs : {<<>>},
                  Format : {wav, <<"m", "p", "3">>}]
    /\ fs \in OldFiles(opts)
    /\ voiceDataFormat \in {FormatSteam, FormatOpus}
    /\ \E l \in FileLists :
          /\ voiceDataPerPlayer = ("1" :> [i \in DOMAIN l |-> WireOf[l[i]]])
          /\ heard = ("1" :> [i \in DOMAIN l |-> [format |-> voiceDataFormat,
                                                  made |-> l[i]]])
    /\ log = <<>>
    /\ effects = {"open", "outdir", "tempdir"}
    /\ xpc = "loop"
    /\ todo = {"1"}
    /\ playerId = ""
    /\ result = "running"
    /\ payloads = <<>>
    /\ made = <<>>
    /\ pc = "idle"
    /\ Fresh

NextFiles ==
    \/ RangePlayer
    \/ NewOpusDecoder
    \/ NextPayload
    \/ DecodeSubChunk
    \/ DecodeDone
    \/ RangeDone
    \/ NewDecoder
    \/ OpusPayload
    \/ OpusRangeDone
    \/ WriteWav
    \/ PlayerReturns
    \/ ExtractReturns

SpecFiles == InitFiles /\ [][NextFiles]_vars

\* the formats a caller may give: none, the supported ones in lower, upper
\* and mixed case, and unsupported ones
FormatValues ==
    {<<>>, <<"w", "a", "v">>, <<"W", "A", "V">>, <<"W", "a", "v">>,
     <<"m", "p", "3">>, <<"M", "P", "3">>, <<"o", "g", "g">>, <<"O", "g", "G">>,
     <<"f", "l", "a", "c">>, <<"F", "L", "A", "C">>, <<"a", "a", "c">>,
     <<"A", "a", "C">>, <<"m", "4", "a">>, <<"M", "4", "A">>,
     <<"t", "x", "t">>, <<"W", "a", "v", "e">>, <<"w", "a">>, <<" ", "w", "a", "v">>,
     <<".", "m", "p", "3">>, <<"W">>}

\* option validation alone: every format with and without the other options
InitOptions ==
    /\ opts \in [DemoPath : {"", "match.dem"}, OutputDir : {"", Cwd},
                  ForceOverwrite : BOOLEAN, PlayerIDs : {<<>>},
                  Format : FormatValues]
    /\ fs = <<>>
    /\ NotStarted

NextOptions ==
    \/ ValidateOptions
    \/ OpenDemo

SpecOptions == InitOptions /\ [][NextOptions]_vars

----------------------------------------------------------------------------
(* Properties of the sequenced assembler (specification Spec)              *)

\* a complete sub-chunk [i16 chunkLen >= 0][u16 frame][chunkLen bytes] is at
\* the head of the unread bytes of the payload being decoded
SubChunkAhead ==
    /\ pc = "decode"
    /\ Len(buf) >= 4
    /\ ReadI16(SubSeq(buf, 1, 2)) >= 0
    /\ Len(buf) >= 4 + ReadI16(SubSeq(buf, 1, 2))

\* its declared frame index, its codec data and the bytes after it
DeclaredFrame == ReadU16(SubSeq(buf, 3, 4))

CodecData == SubSeq(buf, 5, 4 + ReadI16(SubSeq(buf, 1, 2)))

AfterSubChunk == Drop(buf, 4 + ReadI16(SubSeq(buf, 1, 2)))

\* the step did not end the Decode call: no error, no sentinel
StillDecoding == pc' = "decode"

\* number of concealment blocks in a sample sequence
PlcBlocks(s) == Cardinality({i \in DOMAIN s : s[i].kind = "plc"})

\* C1 (as claimed): on a gap (declared index d > expectedFrameIndex e) that the
\* engine conceals without error, the sub-chunk's own codec data is decoded
\* and appended after the concealment samples, and expectedFrameIndex
\* becomes d + 1.
C1_GapDecodesAndAdvances ==
    [][ (SubChunkAhead /\ DeclaredFrame > currentFrame /\ StillDecoding)
          => /\ currentFrame' = U16(DeclaredFrame + 1)
             /\ frameCalls' = frameCalls + 1
             /\ Len(output') > Len(output)
             /\ output'[Len(output')] = DecodedBlock(CodecData) ]_vars

\* C2: on a gap (d > e) at most 10 concealment calls are made; when none of
\* them fails exactly min(d - e, 10) calls are made and exactly that many
\* concealment blocks of 480 samples each are appended right after the
\* samples already decoded; the count comes from d - e, not from d.
C2_GapConcealsDifference ==
    [][ (SubChunkAhead /\ DeclaredFrame > currentFrame)
          => LET n == IF DeclaredFrame - currentFrame < 10
                      THEN DeclaredFrame - currentFrame ELSE 10
             IN /\ plcCalls' - plcCalls <= n
                /\ n <= 10
                /\ StillDecoding =>
                     /\ plcCalls' = plcCalls + n
                     /\ PlcBlocks(output') = PlcBlocks(output) + n
                     /\ Len(output') >= Len(output) + n
                     /\ SubSeq(output', 1, Len(output)) = output
                     /\ \A i \in 1..n :
                          /\ output'[Len(output) + i].kind = "plc"
                          /\ output'[Len(output) + i].samples = 480 ]_vars

\* C2 witness: expected index 2, declared index 11: 9 concealment calls and
\* blocks (not 10 = min(11, 10)) after two decoded frames
C2_Witness ==
    /\ pc = "decode"
    /\ currentFrame = 2
    /\ Len(o) = 2
    /\ c # NilChunk
    /\ c.Data = F(11)
    /\ buf = <<>>
    /\ plcCalls = 9
    /\ Len(output) = 9
    /\ \A i \in 1..9 : output[i].kind = "plc"

\* C4: an in-order sub-chunk (declared index = expectedFrameIndex) makes
\* exactly one codec decode call, on that sub-chunk's data, and no
\* concealment call; expectedFrameIndex goes up by 1 (u16); when the codec
\* accepts the data its samples, and nothing else, are appended.
C4_InOrderFrame ==
    [][ (SubChunkAhead /\ DeclaredFrame = currentFrame)
          => /\ currentFrame' = U16(currentFrame + 1)
             /\ frameCalls' = frameCalls + 1
             /\ plcCalls' = plcCalls
             /\ StillDecoding =>
                  /\ output' = Append(output, DecodedBlock(CodecData))
                  /\ buf' = AfterSubChunk
             /\ ~StillDecoding =>
                  /\ pc' = "done"
                  /\ err' = Wrap("failed to decode Opus frame", "CodecError") ]_vars

\* C4 witness: two in-order frames 0 and 1 of one payload have been decoded
C4_Witness ==
    /\ pc = "decode"
    /\ c # NilChunk
    /\ c.Data = F(0) \o F(1)
    /\ buf = <<>>
    /\ output = <<DecodedBlock(Body(0)), DecodedBlock(Body(1))>>
    /\ currentFrame = 2
    /\ frameCalls = 2
    /\ plcCalls = 0

\* C5: a stale sub-chunk (declared index < expectedFrameIndex) is consumed
\* without any sample, codec call or concealment call, expectedFrameIndex
\* stays, and the loop goes on with the bytes after it.
C5_StaleFrameDropped ==
    [][ (SubChunkAhead /\ DeclaredFrame < currentFrame)
          => /\ output' = output
             /\ o' = o
             /\ frameCalls' = frameCalls
             /\ plcCalls' = plcCalls
             /\ currentFrame' = currentFrame
             /\ err' = err
             /\ pc' = "decode"
             /\ buf' = AfterSubChunk ]_vars

\* C5 witness: in the payload [frame 0][frame 0][frame 1] the second
\* sub-chunk was dropped at expected index 1 and the third decoded after it
C5_Witness ==
    /\ pc = "decode"
    /\ c # NilChunk
    /\ c.Data = F(0) \o F(0) \o F(1)
    /\ buf = <<>>
    /\ output = <<DecodedBlock(Body(0)), DecodedBlock(Body(1))>>
    /\ currentFrame = 2
    /\ frameCalls = 2
    /\ plcCalls = 0

\* C6: a sub-chunk length of -1 sets expectedFrameIndex to 0 and ends the
\* payload: no byte after it is read, no codec call is made, the samples
\* decoded before it are appended to the speaker's samples, and the range
\* loop moves to the next payload, which finds expectedFrameIndex = 0
\* (nothing between two payloads changes it).
C6_SentinelReset ==
    [][ /\ (pc = "decode" /\ Len(buf) >= 2 /\ ReadI16(SubSeq(buf, 1, 2)) = -1)
            => /\ currentFrame' = 0
               /\ o' = o \o output
               /\ pc' = "range"
               /\ idx' = idx + 1
               /\ err' = err
               /\ frameCalls' = frameCalls
               /\ plcCalls' = plcCalls
        /\ pc = "range" => currentFrame' = currentFrame ]_vars

\* C6 witness: payload [frame 0][sentinel][frame 1] then a second payload
\* [frame 0], decoded in order: the bytes after the sentinel gave nothing and
\* the second payload's index 0 was the expected one
C6_Witness ==
    /\ pc = "range"
    /\ idx = 3
    /\ made[1] = Opus(F(0) \o Sentinel \o F(1))
    /\ made[2] = Opus(F(0))
    /\ o = <<DecodedBlock(Body(0)), DecodedBlock(Body(0))>>
    /\ currentFrame = 1
    /\ frameCalls = 2
    /\ plcCalls = 0

\* a payload made as a silence packet the parser accepts
SilenceMade(f) ==
    /\ f.vtype = 0
    /\ f.ptype = 11
    /\ f.data = <<>>
    /\ f.ck = "ok"
    /\ f.cut = -1

\* C7: a silence payload, whatever its length field, adds no sample, leaves
\* expectedFrameIndex alone, makes no codec or concealment call and the loop
\* moves to the next payload.
C7_SilenceNoSamples ==
    [][ (pc = "range" /\ idx <= Len(payloads) /\ SilenceMade(made[idx]))
          => /\ o' = o
             /\ currentFrame' = currentFrame
             /\ frameCalls' = frameCalls
             /\ plcCalls' = plcCalls
             /\ err' = err
             /\ pc' = "range"
             /\ idx' = idx + 1 ]_vars

\* C7 witness: a silence payload with length field 3 was passed after a
\* decoded frame 0
C7_Witness ==
    /\ pc = "range"
    /\ idx = 3
    /\ made[1] = Opus(F(0))
    /\ made[2] = Silence(3)
    /\ o = <<DecodedBlock(Body(0))>>
    /\ currentFrame = 1
    /\ frameCalls = 1
    /\ plcCalls = 0

\* C3 (as claimed): a payload DecodeChunk rejects is skipped, and only it:
\* the range loop goes on to the next payload with the samples so far and
\* without an error, so that the later payloads are decoded and the file
\* is written.
C3_BadPayloadSkipped ==
    [][ (pc = "range" /\ idx <= Len(payloads)
            /\ DecodeChunk(payloads[idx]).err # NoErr)
          => /\ pc' = "range"
             /\ idx' = idx + 1
             /\ o' = o
             /\ err' = err ]_vars

----------------------------------------------------------------------------
(* Properties of DecodeChunk (specification SpecChunk: one payload made    *)
(* from any combination of RawFields)                                      *)

\* DecodeChunk has run on the first payload
Parsed1 ==
    \/ idx > 1
    \/ pc \in {"decode", "panic"}
    \/ err[1] \in {"failed to decode chunk", "failed to decode Opus frame"}

\* the first payload was rejected by DecodeChunk with error e and no Chunk
Rejected1(e) == c = NilChunk /\ err = Wrap("failed to decode chunk", e)

\* the first payload was accepted: DecodeChunk returned a Chunk and no error
Accepted1 == c # NilChunk /\ err[1] # "failed to decode chunk"

\* a packet in the documented layout, whatever its checksum: type tag 0x0B,
\* voice kind silence without data or encoded audio whose length field is
\* the size of the data, nothing cut off
WellFormed(f) ==
    /\ f.ptype = 11
    /\ f.cut = -1
    /\ \/ f.vtype = 0 /\ f.data = <<>>
       \/ f.vtype = 6 /\ f.length = Len(f.data)

\* C8: an otherwise well-formed packet is accepted when its last 4 bytes are
\* the little-endian CRC32 of the bytes before them and rejected with
\* ErrMismatchChecksum, without a Chunk, when they are altered; a returned
\* Chunk's Checksum is always the CRC32 of the bytes before the trailer.
C8_ChecksumIntegrity ==
    Parsed1 =>
       /\ (WellFormed(made[1]) /\ made[1].ck = "ok") => Accepted1
       /\ (WellFormed(made[1]) /\ made[1].ck # "ok")
             => Rejected1("ErrMismatchChecksum")
       /\ c # NilChunk =>
             c.Checksum =
                 ChecksumIEEE(SubSeq(payloads[1], 1, Len(payloads[1]) - 4))

\* C8 witness: a well-formed encoded-audio packet whose 4 checksum bytes were
\* flipped has been rejected
C8_Witness ==
    /\ Parsed1
    /\ WellFormed(made[1])
    /\ made[1].vtype = 6
    /\ made[1].data = F(0)
    /\ made[1].ck = "flip"
    /\ Rejected1("ErrMismatchChecksum")

\* the field values of the Chunk are the ones the packet was made from
FieldsReproduced(f) ==
    /\ c.SteamID = f.steamID
    /\ c.SampleRate = f.rate
    /\ c.Length = f.length
    /\ c.Data = f.data
    /\ c.Checksum = ChecksumIEEE(Layout(f))

C10_MinimumLength ==
    Parsed1 =>
       /\ Len(payloads[1]) < 18 => Rejected1("ErrInsufficientData")
       /\ (/\ Len(payloads[1]) = 18
           /\ WellFormed(made[1])
           /\ made[1].vtype = 0
           /\ made[1].length = 0
           /\ made[1].ck = "ok") => Accepted1

\* C10 witness: a 17-byte input with a valid header has been rejected with
\* ErrInsufficientData
C10_Witness ==
    /\ Parsed1
    /\ Len(payloads[1]) = 17
    /\ made[1].ptype = 11
    /\ made[1].vtype = 0
    /\ Rejected1("ErrInsufficientData")

\* the accepting half of C10 is reached too: an 18-byte silence packet of
\* length 0 with a correct checksum has been accepted
C10_Accepted18 ==
    /\ Parsed1
    /\ Len(payloads[1]) = 18
    /\ made[1].vtype = 0
    /\ made[1].length = 0
    /\ Accepted1

\* the first payload reached DecodeChunk's header checks: at least 18 bytes
LongEnough1 == Len(payloads[1]) >= 18

\* the first payload ends with the checksum its maker computed: nothing was
\* cut off it
Intact1 ==
    /\ made[1].ck = "ok"
    /\ Len(payloads[1]) = Len(Layout(made[1])) + 4

\* C18: for an input of at least 18 bytes with type tag 0x0B and voice kind
\* encoded audio (6) and declared length L: when 14 + L > len(raw) the result
\* is ErrInsufficientData without a Chunk; otherwise the result is not
\* ErrInsufficientData and a returned Chunk's Data is exactly the L bytes
\* raw[14 .. 14 + L).
C18_LengthCheck ==
    (Parsed1 /\ LongEnough1 /\ payloads[1][9] = 11 /\ payloads[1][12] = 6) =>
       LET L == made[1].length IN
       /\ 14 + L > Len(payloads[1]) => Rejected1("ErrInsufficientData")
       /\ 14 + L <= Len(payloads[1]) =>
             /\ ~Rejected1("ErrInsufficientData")
             /\ c # NilChunk =>
                   /\ Len(c.Data) = L
                   /\ \A i \in 1..L : c.Data[i] = payloads[1][14 + i]

\* C18 witness: a 23-byte encoded-audio packet declaring 15 bytes of voice
\* data (14 + 15 > 23) has been rejected with ErrInsufficientData
C18_Witness ==
    /\ Parsed1
    /\ Len(payloads[1]) = 23
    /\ made[1].ptype = 11
    /\ made[1].vtype = 6
    /\ made[1].length = 15
    /\ Rejected1("ErrInsufficientData")

C19_SilenceAccepted ==
    /\ Parsed1
    /\ Len(payloads[1]) = 18
    /\ made[1].vtype = 0
    /\ made[1].length = 5
    /\ Accepted1

\* C20: an input of at least 18 bytes whose byte at offset 8 is not 0x0B is
\* rejected with ErrInvalidVoicePacket, and so is one with type tag 0x0B
\* whose voice-kind byte at offset 11 is neither 0 nor 6; no Chunk is
\* returned in either case.
C20_TagValidation ==
    (Parsed1 /\ LongEnough1) =>
       /\ payloads[1][9] # 11 => Rejected1("ErrInvalidVoicePacket")
       /\ (payloads[1][9] = 11 /\ payloads[1][12] \notin {0, 6})
             => Rejected1("ErrInvalidVoicePacket")

\* C20 witness: a packet that is well formed except for its type tag 0x0A
\* has been rejected with ErrInvalidVoicePacket
C20_Witness ==
    /\ Parsed1
    /\ made[1] = Fields(SteamA, 10, 24000, 6, 5, F(0), "ok", -1)
    /\ Rejected1("ErrInvalidVoicePacket")

\* the voice-kind half of C20 is reached too: a packet with type tag 0x0B and
\* voice kind 5 has been rejected
C20_BadVoiceKind ==
    /\ Parsed1
    /\ made[1] = Fields(SteamA, 11, 24000, 5, 5, F(0), "ok", -1)
    /\ Rejected1("ErrInvalidVoicePacket")

----------------------------------------------------------------------------
(* End to end (specification SpecStream: payloads of one sub-chunk each)   *)

\* the speaker's payloads declare the indices 0, 1, ..., n - 1 in that order
InOrderPayloads == \A i \in DOMAIN made : made[i] = Opus(F(i - 1))

\* the sample blocks decoded from the frames 0 .. n - 1, in that order
FrameBlocks(n) == [i \in 1..n |-> DecodedBlock(Body(i - 1))]

\* C11: from a fresh decoder (currentFrame = 0), n payloads whose single
\* sub-chunks declare the indices 0 .. n - 1 in order give, when the range
\* loop is over, exactly the n decoded blocks in that order, no concealment
\* call and currentFrame = n; between two payloads the first idx - 1 blocks
\* are there and currentFrame = idx - 1.
C11_InOrderStream ==
    InOrderPayloads =>
       /\ plcCalls = 0
       /\ pc = "range" =>
             /\ o = FrameBlocks(idx - 1)
             /\ currentFrame = idx - 1
             /\ frameCalls = idx - 1
       /\ pc = "write" =>
             /\ o = FrameBlocks(Len(payloads))
             /\ currentFrame = Len(payloads)
             /\ frameCalls = Len(payloads)
             /\ err = NoError

\* C11 witness: the three payloads with indices 0, 1, 2 have been decoded
\* into three blocks without concealment
C11_Witness ==
    /\ made = <<Opus(F(0)), Opus(F(1)), Opus(F(2))>>
    /\ pc = "write"
    /\ o = <<DecodedBlock(Body(0)), DecodedBlock(Body(1)), DecodedBlock(Body(2))>>
    /\ plcCalls = 0
    /\ currentFrame = 3

----------------------------------------------------------------------------
(* The sequence counter over the uint16 range (specification SpecLate)     *)

\* the reset sentinel is at the head of the unread bytes
SentinelAhead ==
    /\ pc = "decode"
    /\ Len(buf) >= 2
    /\ ReadI16(SubSeq(buf, 1, 2)) = -1

\* C17 (as claimed): within one stream expectedFrameIndex never decreases
\* over any step except the one that reads a reset sentinel, over the whole
\* uint16 range, the in-order frame at index 65535 included.
C17_NeverDecreases ==
    [][ currentFrame' >= currentFrame \/ SentinelAhead ]_vars

\* where C17 fails: the in-order frame 65535 has been decoded and
\* d.currentFrame = 65535 + 1 is 0
C17_Wrapped ==
    /\ made[1] = Opus(F(65535))
    /\ idx = 2
    /\ o = <<DecodedBlock(Body(65535))>>
    /\ currentFrame = 0

----------------------------------------------------------------------------
(* The direct assembler opusToWav (specification SpecDirect)               *)

\* the positions of the payloads whose decode failure was logged
LoggedFailures ==
    {log[j][2] : j \in {k \in DOMAIN log : log[k][1] = "Failed to decode Opus data"}}

RECURSIVE DirectBlocks(_, _)
\* the blocks of the first n payloads, in payload order, without those whose
\* failure was logged; each block is decoded from the whole payload
DirectBlocks(failed, n) ==
    IF n = 0 THEN <<>>
    ELSE DirectBlocks(failed, n - 1)
            \o (IF n \in failed THEN <<>> ELSE <<DecodedBlock(payloads[n])>>)

\* the samples are those of the payloads before position n that decoded
DirectOutput(n) ==
    /\ o = DirectBlocks(LoggedFailures, n - 1)
    /\ frameCalls = n - 1
    /\ plcCalls = 0
    /\ currentFrame = 0
    /\ c = NilChunk
    /\ err = NoError

\* one payload of the direct loop: one codec call on the whole payload and
\* no other; it either appends that payload's block or logs the failure and
\* appends nothing, and the loop goes on to the next payload
DirectStep ==
    (pc = "opus" /\ idx <= Len(payloads)) =>
       /\ frameCalls' = frameCalls + 1
       /\ plcCalls' = plcCalls
       /\ pc' = "opus"
       /\ idx' = idx + 1
       /\ err' = err
       /\ \/ /\ o' = Append(o, DecodedBlock(payloads[idx]))
             /\ log' = log
          \/ /\ o' = o
             /\ log' = Append(log, <<"Failed to decode Opus data", idx>>)

----------------------------------------------------------------------------
(* Properties of ExtractVoiceData (specifications SpecExtract, SpecOptions)*)

\* the step is one iteration of the range over the players, for the player
\* playerId', up to the call of a pipeline or a continue
Visit == xpc = "loop" /\ todo' # todo

\* the iteration ended in a continue: no pipeline was called, nothing was
\* decoded, no file was touched, and the range goes on with the others
Skipped ==
    /\ xpc' = "loop"
    /\ todo' = todo \ {playerId'}
    /\ UNCHANGED rvars
    /\ fs' = fs
    /\ result' = result

\* the last log record is about the message msg
Logged(msg) == log' # log /\ log'[Len(log')][1] = msg

\* the format tags delivered with the player's own voice messages
OwnFormats(p) == {heard[p][i].format : i \in DOMAIN heard[p]}

\* C13 (as claimed): the pipeline called for a speaker is the one of the
\* format tag delivered with that speaker's own payloads (STEAM: the
\* sequenced assembler, OPUS: the direct one), whatever other speakers'
\* messages carried.
C13_PipelinePerSpeaker ==
    [][ Visit =>
          /\ pc' = "init" => FormatSteam \in OwnFormats(playerId')
          /\ pc' = "opusInit" => FormatOpus \in OwnFormats(playerId') ]_vars

\* where C13 fails: the direct pipeline is called for a speaker whose only
\* message was tagged STEAM, after another speaker's OPUS message
C13_OtherSpeakersTag ==
    /\ xpc = "player"
    /\ pc = "opusInit"
    /\ OwnFormats(playerId) = {FormatSteam}

\* the player's final output file is there
Existing(p) == finalOutputPath(opts, p) \in DOMAIN fs

\* the format of the demo's voice data has a pipeline
KnownFormat == voiceDataFormat \in {FormatSteam, FormatOpus}

C14_Overwritten ==
    /\ opts.ForceOverwrite
    /\ playerId = "1"
    /\ pc = "done"
    /\ file = "written"
    /\ Path(Cwd, "1", wav) \in DOMAIN fs
    /\ fs[Path(Cwd, "1", wav)] = OldFile

\* C15: with a non-empty PlayerIDs every speaker that is not in the list is
\* skipped without decoding, and every file made belongs to a speaker in
\* the list; with an empty PlayerIDs no speaker is skipped by the filter:
\* every speaker with voice data gets to the pipeline call (unless its file
\* exists and ForceOverwrite is off, os.Stat fails, or the format has no
\* pipeline).
C15_PlayerFilter ==
    /\ [][ (Visit /\ opts.PlayerIDs # <<>>
              /\ \A i \in DOMAIN opts.PlayerIDs : opts.PlayerIDs[i] # playerId')
            => Skipped /\ Logged("Skipping player (not in filter)") ]_vars
    /\ [](opts.PlayerIDs # <<>>
            => \A q \in DOMAIN fs :
                  fs[q] # OldFile => \E i \in DOMAIN opts.PlayerIDs : opts.PlayerIDs[i] = q[2])
    /\ [][ (Visit /\ opts.PlayerIDs = <<>>)
            => /\ ~Logged("Skipping player (not in filter)")
               /\ (KnownFormat /\ (~Existing(playerId') \/ opts.ForceOverwrite))
                     => \/ /\ xpc' = "player"
                           /\ payloads' = voiceDataPerPlayer[playerId']
                        \/ Skipped /\ Logged("Failed to check file existence") ]_vars

\* C15 witness: PlayerIDs is <<"1">>, players 1 and 2 both spoke, player 2
\* was skipped by the filter and only player 1's file was written
C15_Witness ==
    /\ opts.PlayerIDs = <<"1">>
    /\ xpc = "returned"
    /\ DOMAIN voiceDataPerPlayer = {"1", "2"}
    /\ \E j \in DOMAIN log : log[j] = <<"Skipping player (not in filter)", "2">>
    /\ DOMAIN fs = {Path(Cwd, "1", wav)}
    /\ fs[Path(Cwd, "1", wav)] # OldFile
    /\ fs[Path(Cwd, "1", wav)].state = "written"

\* the empty-filter half of C15 is reached too: without a filter both
\* players' files were written
C15_AllProcessed ==
    /\ opts.PlayerIDs = <<>>
    /\ xpc = "returned"
    /\ DOMAIN fs = {Path(Cwd, "1", wav), Path(Cwd, "2", wav)}
    /\ \A q \in DOMAIN fs : fs[q] # OldFile /\ fs[q].state = "written"

----------------------------------------------------------------------------
(* Properties of the option validation (specification SpecOptions)         *)

\* an upper-case letter with its lower-case form
CasePairs == {<<UpperCase[i], LowerCase[i]>> : i \in DOMAIN UpperCase}

\* str is the format name but for the case of its letters
IsFormat(str, name) ==
    /\ Len(str) = Len(name)
    /\ \A i \in DOMAIN str : str[i] = name[i] \/ <<str[i], name[i]>> \in CasePairs

\* the Format the caller gave names one of wav, mp3, ogg, flac, aac, m4a
ValidFormat(given) ==
    \E i \in DOMAIN supportedFormats : IsFormat(given, supportedFormats[i])

\* the supported format the caller's Format names
Canonical(given) ==
    supportedFormats[CHOOSE i \in DOMAIN supportedFormats :
                        IsFormat(given, supportedFormats[i])]

\* the step that validates the options
Validates == xpc = "start" /\ xpc' # "start"

\* the call returned an error wrapping ErrInvalidFormat, with the demo file
\* not opened and nothing created
RejectsFormat ==
    /\ xpc' = "returned"
    /\ result'[2] = ErrInvalidFormat
    /\ effects' = {}
    /\ fs' = fs

\* the checks of lines 139-150, made before the format is looked at, failed
EarlierCheckFailed ==
    /\ xpc' = "returned"
    /\ \/ opts.DemoPath = "" /\ result' = Wrap("demo path is required", NoErr)
       \/ opts.OutputDir = ""
            /\ result' = Wrap("failed to get current directory", "os")
    /\ effects' = {}
    /\ fs' = fs

\* the format is accepted: the call goes on to os.Open with Format set to f
Accepts(f) ==
    /\ xpc' = "open"
    /\ opts'.Format = f
    /\ effects' = {}
    /\ fs' = fs

\* C16 as stated: an empty Format defaults to wav; a non-empty Format is
\* lower-cased and accepted if it is one of wav, mp3, ogg, flac, aac, m4a;
\* for any other Format ExtractVoiceData returns an error wrapping
\* ErrInvalidFormat before the demo file is opened and before any file or
\* directory is created
C16_FormatValidation ==
    [][ Validates
          => /\ opts.Format = <<>> => Accepts(wav) \/ EarlierCheckFailed
             /\ (opts.Format # <<>> /\ ValidFormat(opts.Format))
                   => Accepts(Canonical(opts.Format)) \/ EarlierCheckFailed
             /\ (opts.Format # <<>> /\ ~ValidFormat(opts.Format))
                   => RejectsFormat ]_vars

\* C16 amended: the same, for a call that gets as far as the format, that
\* is, with a non-empty DemoPath and an OutputDir that is given or found by
\* os.Getwd; a call that fails one of these two checks returns that error,
\* whatever the Format, also before the demo file is opened and before
\* anything is created.  An error wrapping ErrInvalidFormat is never
\* returned once the demo file was opened.
C16_FormatValidationReached ==
    /\ [][ Validates
             => /\ opts.Format = <<>> => Accepts(wav) \/ EarlierCheckFailed
                /\ (opts.Format # <<>> /\ ValidFormat(opts.Format))
                      => Accepts(Canonical(opts.Format)) \/ EarlierCheckFailed
                /\ (opts.Format # <<>> /\ ~ValidFormat(opts.Format))
                      => RejectsFormat \/ EarlierCheckFailed
                /\ (opts.DemoPath # "" /\ opts.OutputDir # "" /\ opts.Format # <<>>
                      /\ ~ValidFormat(opts.Format))
                      => RejectsFormat ]_vars
    /\ []((xpc = "returned" /\ result[2] = ErrInvalidFormat)
             => effects = {} /\ fs = <<>>)

\* C16 witness: the Format given, "Wave", was lower-cased and rejected with
\* ErrInvalidFormat before anything was opened or created
C16_Witness ==
    /\ xpc = "returned"
    /\ result[2] = ErrInvalidFormat
    /\ opts.Format = <<"w", "a", "v", "e">>
    /\ opts.DemoPath # ""
    /\ effects = {}
    /\ fs = <<>>

\* the case the statement leaves out: an unsupported Format with an empty
\* DemoPath returns the error of the DemoPath check
C16_DemoPathFirst ==
    /\ xpc = "returned"
    /\ opts.DemoPath = ""
    /\ opts.Format = <<"t", "x", "t">>
    /\ result = Wrap("demo path is required", NoErr)

\* a Format in mixed case was accepted and the demo file opened
C16_MixedCaseAccepted ==
    /\ xpc = "parse"
    /\ opts.Format = <<"o", "g", "g">>
    /\ "open" \in effects

----------------------------------------------------------------------------
(* Order of the checks of DecodeChunk (specification SpecChunk)            *)

\* the defects of the first payload, read off its bytes and off how it was
\* made: a wrong type tag, a voice kind that is neither silence nor encoded
\* audio, encoded audio declaring more bytes than follow the header, a
\* number of bytes after the voice data other than 4, a trailer that is not
\* the CRC32 of the bytes before it
BadTag1 == payloads[1][9] # 11

BadKind1 == payloads[1][12] \notin {0, 6}

Overlong1 == payloads[1][12] = 6 /\ 14 + made[1].length > Len(payloads[1])

BadTrailer1 ==
    Len(payloads[1]) #
        18 + (IF payloads[1][12] = 6 THEN made[1].length ELSE 0)

BadSum1 ==
    SubSeq(payloads[1], Len(payloads[1]) - 3, Len(payloads[1]))
        # PutDigits(ChecksumIEEE(SubSeq(payloads[1], 1, Len(payloads[1]) - 4)))

\* C25: DecodeChunk reports the earliest defect in the order total length
\* < 18 (ErrInsufficientData), type tag (ErrInvalidVoicePacket), voice kind
\* with declared length (ErrInvalidVoicePacket / ErrInsufficientData),
\* trailer count (ErrInvalidVoicePacket), checksum (ErrMismatchChecksum),
\* whatever later defects the input has; an input without a defect is
\* accepted.
C25_ErrorPrecedence ==
    Parsed1 =>
       /\ ~LongEnough1 => Rejected1("ErrInsufficientData")
       /\ (LongEnough1 /\ BadTag1) => Rejected1("ErrInvalidVoicePacket")
       /\ (LongEnough1 /\ ~BadTag1 /\ BadKind1)
             => Rejected1("ErrInvalidVoicePacket")
       /\ (LongEnough1 /\ ~BadTag1 /\ Overlong1)
             => Rejected1("ErrInsufficientData")
       /\ (LongEnough1 /\ ~BadTag1 /\ ~BadKind1 /\ ~Overlong1 /\ BadTrailer1)
             => Rejected1("ErrInvalidVoicePacket")
       /\ (LongEnough1 /\ ~BadTag1 /\ ~BadKind1 /\ ~Overlong1 /\ ~BadTrailer1
             /\ BadSum1)
             => Rejected1("ErrMismatchChecksum")
       /\ (LongEnough1 /\ ~BadTag1 /\ ~BadKind1 /\ ~Overlong1 /\ ~BadTrailer1
             /\ ~BadSum1)
             => Accepted1

\* C25 witness: a packet with a wrong type tag and a wrong checksum, of full
\* length, has been rejected with ErrInvalidVoicePacket
C25_Witness ==
    /\ Parsed1
    /\ LongEnough1
    /\ BadTag1
    /\ BadSum1
    /\ made[1].cut = -1
    /\ Rejected1("ErrInvalidVoicePacket")

\* the other example of C25 is reached too: a 17-byte input with a wrong
\* type tag has been rejected with ErrInsufficientData
C25_ShortWithWrongTag ==
    /\ Parsed1
    /\ Len(payloads[1]) = 17
    /\ BadTag1
    /\ Rejected1("ErrInsufficientData")

\* and so is the last place of the order: a packet whose only defect is the
\* checksum has been rejected with ErrMismatchChecksum
C25_ChecksumLast ==
    /\ Parsed1
    /\ LongEnough1 /\ ~BadTag1 /\ ~BadKind1 /\ ~Overlong1 /\ ~BadTrailer1
    /\ BadSum1
    /\ Rejected1("ErrMismatchChecksum")

----------------------------------------------------------------------------
(* How a call of OpusDecoder.Decode ends (specification Spec)              *)

\* the sub-chunk at the head of the unread bytes has its 4 header bytes and
\* a length field that is negative and not the sentinel -1
NegativeLengthAhead ==
    /\ pc = "decode"
    /\ Len(buf) >= 4
    /\ ReadI16(SubSeq(buf, 1, 2)) < -1

\* C26 (as claimed): every call of Decode ends by returning samples or an
\* error value: the run never terminates abnormally, and a sub-chunk whose
\* length field is negative but not -1 makes Decode return an error to the
\* range loop.
C26_DecodeAlwaysReturns ==
    /\ [](pc # "panic")
    /\ [][ NegativeLengthAhead
             => /\ pc' = "done"
                /\ err'[1] = "failed to decode Opus frame" ]_vars

\* where C26 fails: the run ended in make([]byte, chunkLen) with chunkLen = -2
C26_Panicked ==
    /\ pc = "panic"
    /\ ReadI16(SubSeq(buf, 1, 2)) = -2
    /\ err = NoError
    /\ file = "absent"

\* the step is a return of Decode with an error
DecodeFails ==
    /\ pc = "decode"
    /\ pc' = "done"
    /\ err'[1] = "failed to decode Opus frame"

\* C27: when Decode returns an error part-way through a payload no sample of
\* that payload is returned: o stays as it was before the payload, also when
\* earlier sub-chunks of the payload had been decoded, and nothing is written;
\* expectedFrameIndex keeps what the earlier sub-chunks made of it, and a
\* failing step changes it only by the increment made before the codec
\* decode of an in-order frame.
C27_ErrorDiscardsPayload ==
    /\ [][ DecodeFails
             => /\ o' = o
                /\ file' = file
                /\ idx' = idx
                /\ currentFrame' =
                      IF SubChunkAhead /\ DeclaredFrame = currentFrame
                      THEN U16(currentFrame + 1)
                      ELSE currentFrame ]_vars
    /\ [][ (pc = "decode" /\ pc' = "decode") => o' = o ]_vars
    /\ []((pc = "done" /\ err[1] = "failed to decode Opus frame")
             => /\ file = "absent"
                /\ idx = 1 => o = <<>>)

\* C27 witness: the first payload held frame 0 and then a truncated
\* sub-chunk: frame 0 was decoded (output holds its samples), Decode failed,
\* no sample reached o, and expectedFrameIndex is still 1
C27_Witness ==
    /\ pc = "done"
    /\ err[1] = "failed to decode Opus frame"
    /\ idx = 1
    /\ output = <<DecodedBlock(Body(0))>>
    /\ o = <<>>
    /\ currentFrame = 1
    /\ frameCalls = 1

\* the increment before a failing codec decode is reached too: the engine
\* rejected in-order frame 0 and expectedFrameIndex is 1
C27_IncrementKept ==
    /\ pc = "done"
    /\ err = Wrap("failed to decode Opus frame", "CodecError")
    /\ idx = 1
    /\ made[1] = Opus(F(0))
    /\ output = <<>>
    /\ currentFrame = 1

----------------------------------------------------------------------------
(* Encoded audio of length 0 (specification Spec)                          *)

\* a payload made as a checksum-valid encoded-audio packet of declared
\* length 0
EmptyAudioMade(f) ==
    /\ f.vtype = 6
    /\ f.ptype = 11
    /\ f.length = 0
    /\ f.data = <<>>
    /\ f.ck = "ok"
    /\ f.cut = -1

\* the range loop passes over the payload: the sub-chunk decoder is not
\* called, no codec call is made, nothing is appended, expectedFrameIndex
\* stays, and the loop is at the next payload
PassedOver ==
    /\ pc' = "range"
    /\ idx' = idx + 1
    /\ o' = o
    /\ currentFrame' = currentFrame
    /\ frameCalls' = frameCalls
    /\ plcCalls' = plcCalls
    /\ buf' = buf
    /\ output' = output
    /\ err' = err
    /\ file' = file

\* C29: a checksum-valid encoded-audio packet of declared length 0 is
\* handled as a silence packet is: the Chunk DecodeChunk returns has the
\* fields SteamID, SampleRate, Length, Data, Checksum and no voice kind, its
\* Data is empty, so the range loop reads it as silence and passes over it.
C29_EmptyAudioAsSilence ==
    [][ (pc = "range" /\ idx <= Len(payloads)
           /\ (EmptyAudioMade(made[idx]) \/ SilenceMade(made[idx])))
          => /\ PassedOver
             /\ DOMAIN c' = {"SteamID", "SampleRate", "Length", "Data", "Checksum"}
             /\ c'.Data = <<>>
             /\ c'.Length = made[idx].length ]_vars

\* C29 witness: an encoded-audio packet of length 0 was passed over after a
\* decoded frame 0
C29_Witness ==
    /\ pc = "range"
    /\ idx = 3
    /\ made[1] = Opus(F(0))
    /\ made[2] = Opus(<<>>)
    /\ c.Data = <<>>
    /\ o = <<DecodedBlock(Body(0))>>
    /\ currentFrame = 1
    /\ frameCalls = 1
    /\ plcCalls = 0

----------------------------------------------------------------------------
(* Order of the payloads, the sub-chunks and the samples (specification    *)
(* Spec)                                                                   *)

\* s is the beginning of t
IsPrefix(s, t) == Len(s) <= Len(t) /\ SubSeq(t, 1, Len(s)) = s

\* s is the end of t
IsSuffix(s, t) ==
    Len(s) <= Len(t) /\ SubSeq(t, Len(t) - Len(s) + 1, Len(t)) = s

\* the run is inside convertAudioDataToWavFiles, after the decoder was made
InRun == pc \in {"range", "decode", "write"}

\* C23: within a speaker's run the payloads are taken strictly in list order
\* (the position moves by one, forward, and the payload decoded is the one
\* at the position), the bytes of a payload are read front to back, output
\* and o are append-only, o changes only when a payload's Decode returns and
\* then by the whole group of that payload at its end, and the file written
\* holds o.
C23_OrderPreserved ==
    /\ [][ InRun => (idx' = idx \/ idx' = idx + 1) ]_vars
    /\ [][ (pc = "range" /\ pc' = "decode")
              => idx' = idx /\ buf' = made[idx].data /\ output' = <<>> ]_vars
    /\ [][ (pc = "decode" /\ pc' \in {"decode", "range"})
              => /\ IsSuffix(buf', buf)
                 /\ IsPrefix(output, output')
                 /\ idx' = idx + (IF pc' = "range" THEN 1 ELSE 0) ]_vars
    /\ [][ InRun => IsPrefix(o, o') ]_vars
    /\ [][ (InRun /\ o' # o)
              => pc = "decode" /\ pc' = "range" /\ o' = o \o output' ]_vars
    /\ [][ (pc = "decode" /\ pc' = "range") => o' = o \o output' ]_vars
    /\ [](file = "written" => pc = "done" /\ idx = Len(payloads) + 1)

\* C23 witness: two payloads with frames 0, 1 and frame 2 were decoded and
\* the file written holds the three sample groups in that order
C23_Witness ==
    /\ pc = "done"
    /\ file = "written"
    /\ made = <<Opus(F(0) \o F(1)), Opus(F(2))>>
    /\ o = <<DecodedBlock(Body(0)), DecodedBlock(Body(1)), DecodedBlock(Body(2))>>

----------------------------------------------------------------------------
(* Termination of Decode and of the run (specification SpecTerm)           *)

\* the place of a control point in the order of a run
Rank ==
    [p \in {"collect", "init", "range", "decode", "write", "done", "panic"} |->
        CASE p = "collect" -> 0
          [] p = "init"    -> 1
          [] p = "range"   -> 2
          [] p = "decode"  -> 3
          [] p = "write"   -> 4
          [] OTHER         -> 5]

\* a step of the run moves it forward: to a later payload, or at the same
\* payload to a later control point, or inside Decode to a buffer that is
\* shorter by the 4 header bytes at least
Progress ==
    \/ idx' = idx + 1 /\ idx' <= Len(payloads) + 1
    \/ idx' = idx /\ Rank[pc'] > Rank[pc]
    \/ /\ idx' = idx
       /\ pc = "decode" /\ pc' = "decode"
       /\ Len(buf') + 4 <= Len(buf)

\* C30 (as claimed): every iteration of the sub-chunk loop leaves the loop or
\* consumes the 2-byte length and the 2-byte frame index at least, every
\* step of the run moves it forward, so Decode ends on every payload; and
\* the assembler reaches its terminal state, the return of
\* convertAudioDataToWavFiles.
C30_ReachesTerminalState ==
    /\ [][ pc # "collect" => Progress ]_vars
    /\ <>(pc = "done")

\* what holds of it: every step moves the run forward, and the run ends,
\* either in the return of convertAudioDataToWavFiles or in the abnormal
\* termination inside Decode
C30_RunEnds ==
    /\ [][ pc # "collect" => Progress ]_vars
    /\ <>(pc \in {"done", "panic"})

\* where C30 fails: Decode has read the length -2 and the frame index of a
\* sub-chunk and the run has ended there, before the return
C30_EndedInDecode ==
    /\ pc = "panic"
    /\ Len(buf) >= 4
    /\ ReadI16(SubSeq(buf, 1, 2)) = -2
    /\ file = "absent"
    /\ err = NoError

----------------------------------------------------------------------------
(* The output file of the STEAM pipeline (specification SpecFiles)         *)

\* the pipeline of the run is the STEAM one
SteamRun == voiceDataFormat = FormatSteam

\* convertAudioDataToWavFiles returned an error from before os.Create: the
\* decoder could not be made, or a payload failed packet decode or codec
\* decode
FailedBeforeCreate ==
    err[1] \in {"failed to initialize OpusDecoder", "failed to decode chunk",
                "failed to decode Opus frame"}

\* every payload of the run passed packet decode
AllChunksDecoded == \A i \in DOMAIN payloads : DecodeChunk(payloads[i]).err = NoErr

\* C28: in the STEAM pipeline the file at the target path is created or
\* truncated only in the step after the range loop, when every payload has
\* passed packet decode and codec decode; when a payload fails the file is
\* not touched and the files are as they were, so a file that was there keeps
\* its content, with ForceOverwrite too.
C28_FileAfterAllPayloads ==
    /\ [][ (SteamRun /\ xpc = "player" /\ file' # file)
              => /\ pc = "write"
                 /\ idx = Len(payloads) + 1
                 /\ err = NoError
                 /\ AllChunksDecoded ]_vars
    /\ [][ (SteamRun /\ xpc = "player" /\ fs' # fs)
              => /\ pc = "done"
                 /\ ~FailedBeforeCreate
                 /\ file \in {"created", "written", "unclosed"} ]_vars
    /\ [][ (SteamRun /\ pc \in {"done", "idle"} /\ FailedBeforeCreate)
              => \A q \in DOMAIN fs :
                    fs[q] = OldFile => (q \in DOMAIN fs' /\ fs'[q] = OldFile) ]_vars
    /\ []((SteamRun /\ pc \in {"done", "idle"} /\ FailedBeforeCreate)
              => /\ file \in {"absent", "old"}
                 /\ \A q \in DOMAIN fs : fs[q] = OldFile)

\* C28 witness: with ForceOverwrite on and the wav file of player 1 there,
\* the first payload was decoded, the second failed packet decode, the call
\* has returned and the file is as it was
C28_Witness ==
    /\ SteamRun
    /\ opts.ForceOverwrite
    /\ opts.Format = wav
    /\ xpc = "returned"
    /\ err[1] = "failed to decode chunk"
    /\ idx = 2
    /\ o # <<>>
    /\ file = "old"
    /\ Path(Cwd, "1", wav) \in DOMAIN fs
    /\ fs[Path(Cwd, "1", wav)] = OldFile
    /\ \E j \in DOMAIN log : log[j] = <<"Failed to write WAV file", "1">>

\* the same with a codec decode failure instead of a packet decode failure
C28_CodecFailure ==
    /\ SteamRun
    /\ opts.ForceOverwrite
    /\ xpc = "returned"
    /\ err = Wrap("failed to decode Opus frame", "CodecError")
    /\ Path(Cwd, "1", wav) \in DOMAIN fs
    /\ fs[Path(Cwd, "1", wav)] = OldFile

\* and the other side: with ForceOverwrite on and every payload decoded the
\* file that was there has been overwritten
C28_OverwrittenAfterSuccess ==
    /\ SteamRun
    /\ opts.ForceOverwrite
    /\ opts.Format = wav
    /\ xpc = "returned"
    /\ err = NoError
    /\ file = "written"
    /\ fs[Path(Cwd, "1", wav)].state = "written"
    /\ fs[Path(Cwd, "1", wav)].samples = o

----------------------------------------------------------------------------
(* The two phases of ExtractVoiceData (specification SpecExtract)          *)

\* the demo is not parsed to its end yet
Collecting == xpc \in {"start", "open", "parse"}

\* no pipeline has run: no payload was given to one, no codec call was made
NothingDecoded ==
    /\ pc = "idle"
    /\ payloads = <<>>
    /\ idx = 1
    /\ o = <<>>
    /\ frameCalls = 0
    /\ plcCalls = 0
    /\ fs \in OldFiles(opts) \cup {<<>>}

\* the step appends one payload at the end of one speaker's list and leaves
\* the other lists alone
OneAppended ==
    \E p \in DOMAIN voiceDataPerPlayer' :
       /\ Len(voiceDataPerPlayer'[p]) = Len(Get(voiceDataPerPlayer, p)) + 1
       /\ SubSeq(voiceDataPerPlayer'[p], 1, Len(voiceDataPerPlayer'[p]) - 1)
             = Get(voiceDataPerPlayer, p)
       /\ DOMAIN voiceDataPerPlayer' = DOMAIN voiceDataPerPlayer \cup {p}
       /\ \A q \in DOMAIN voiceDataPerPlayer :
             q # p => voiceDataPerPlayer'[q] = voiceDataPerPlayer[q]

\* C22: while the demo is parsed nothing is decoded; a payload is added to a
\* list only while the demo is parsed, at the end of its speaker's list;
\* once the parse has returned the lists do not change, and a pipeline is
\* given the whole list of its speaker.
C22_TwoPhases ==
    /\ [](Collecting => NothingDecoded)
    /\ [][ voiceDataPerPlayer' # voiceDataPerPlayer
              => /\ xpc = "parse" /\ xpc' = "parse"
                 /\ NothingDecoded
                 /\ OneAppended ]_vars
    /\ [][ ~Collecting => voiceDataPerPlayer' = voiceDataPerPlayer ]_vars
    /\ [](xpc = "player" => payloads = voiceDataPerPlayer[playerId])

\* C22 witness: two payloads of player 1 were collected and the decoding of
\* the list has started with the first of them
C22_Witness ==
    /\ xpc = "player"
    /\ playerId = "1"
    /\ Len(voiceDataPerPlayer["1"]) = 2
    /\ payloads = voiceDataPerPlayer["1"]
    /\ pc = "range"
    /\ idx = 2
    /\ frameCalls = 1

----------------------------------------------------------------------------
(* Isolation of the speakers (specification SpecExtract)                   *)

\* the frame index a payload made as one sub-chunk declares
FrameOf(f) == ReadU16(SubSeq(f.data, 3, 4))

RECURSIVE Sequenced(_, _, _, _)
\* the samples of the sequenced assembler for a list of payloads made as one
\* sub-chunk each, from position i on, with expected index e and the samples
\* acc so far, when the engine fails nowhere
Sequenced(list, i, e, acc) ==
    IF i > Len(list) THEN acc
    ELSE LET k == FrameOf(list[i]) IN
         IF k = e
         THEN Sequenced(list, i + 1, U16(e + 1),
                        Append(acc, DecodedBlock(SubSeq(list[i].data, 5, Len(list[i].data)))))
         ELSE IF k > e
         THEN Sequenced(list, i + 1, e,
                        acc \o [j \in 1..Min(k - e, MaxLoss) |-> LossBlock])
         ELSE Sequenced(list, i + 1, e, acc)

\* how the messages of speaker p were made, in arrival order
OwnList(p) == [i \in DOMAIN heard[p] |-> heard[p][i].made]

\* the step calls a pipeline for the player playerId'
Called == Visit /\ xpc' = "player"

\* the run of the player starts with nothing left of an earlier run, on the
\* player's own list
StartsFresh ==
    /\ payloads' = voiceDataPerPlayer[playerId']
    /\ idx' = 1
    /\ c' = NilChunk
    /\ buf' = <<>>
    /\ output' = <<>>
    /\ o' = <<>>
    /\ err' = NoError

\* the finished files of the speakers whose own messages were all tagged
\* STEAM hold the samples of the sequenced assembler for their own list
OwnSamples ==
    \A p \in DOMAIN heard :
       LET q == finalOutputPath(opts, p) IN
       (xpc \in {"loop", "returned"} /\ OwnFormats(p) = {FormatSteam}
          /\ q \in DOMAIN fs /\ fs[q] # OldFile
          /\ fs[q].state \in {"written", "converted"})
       => fs[q].samples = Sequenced(OwnList(p), 1, 0, <<>>)

\* C21 (as claimed): every run of an assembler starts fresh on its speaker's
\* own list, with a decoder of its own whose expectedFrameIndex is 0, and
\* the samples written for a speaker are those of that speaker's own list,
\* whoever else spoke and in whatever order the speakers are visited.
C21_SpeakerIsolation ==
    /\ [][ Called => StartsFresh ]_vars
    /\ [][ (xpc = "player" /\ pc = "init") => currentFrame' = 0 ]_vars
    /\ []OwnSamples

\* what holds of it: the runs start fresh with an expectedFrameIndex of
\* their own, and the samples are those of the speaker's own list when the
\* last voice message of the demo was tagged STEAM
C21_OwnSequenceState ==
    /\ [][ Called => StartsFresh ]_vars
    /\ [][ (xpc = "player" /\ pc = "init") => currentFrame' = 0 ]_vars
    /\ [](voiceDataFormat = FormatSteam => OwnSamples)

\* where C21 fails: player 1's only message was tagged STEAM, player 2's,
\* the later one, OPUS, and the file written for player 1 holds the samples
\* of the direct pipeline
C21_ChangedByOtherSpeaker ==
    /\ xpc = "returned"
    /\ DOMAIN heard = {"1", "2"}
    /\ OwnFormats("1") = {FormatSteam}
    /\ OwnFormats("2") = {FormatOpus}
    /\ Path(Cwd, "1", wav) \in DOMAIN fs
    /\ fs[Path(Cwd, "1", wav)].state = "written"
    /\ fs[Path(Cwd, "1", wav)].samples = <<DecodedBlock(WireOf[Opus(F(0))])>>

\* and where it holds: both players spoke, in STEAM messages, and each file
\* holds the samples of its speaker's own list
C21_BothOwnSamples ==
    /\ xpc = "returned"
    /\ voiceDataFormat = FormatSteam
    /\ \A p \in {"1", "2"} :
          /\ p \in DOMAIN heard
          /\ OwnFormats(p) = {FormatSteam}
          /\ Path(Cwd, p, wav) \in DOMAIN fs
          /\ fs[Path(Cwd, p, wav)].state = "written"
          /\ fs[Path(Cwd, p, wav)].samples = <<DecodedBlock(Body(0))>>


\* ---------------------------------------------------------------------
\* C24  no failure is turned into silent success
\* ---------------------------------------------------------------------

\* a step of the speaker's run failed: the codec could not be made, a
\* packet did not decode, the codec or the concealment failed, the direct
\* pipeline could not decode a payload, or the file was not created, not
\* written or not closed
StepFailed ==
    \/ pc \in {"init", "opusInit"} /\ pc' = "done"
    \/ pc \in {"range", "decode"} /\ pc' = "done" /\ idx <= Len(payloads)
    \/ pc = "opus" /\ idx' = idx + 1 /\ Len(o') = Len(o)
    \/ pc = "write" /\ pc' = "done" /\ file' # "written"

\* ExtractVoiceData comes back from the speaker's run
BackFromRun == xpc = "player" /\ xpc' = "loop"

\* the speaker is reported as created successfully (lines 294 and 305):
\* no warning is logged on the way back from the run
CreatedSuccessfully == BackFromRun /\ log' = log

\* C24: every failing step of a speaker's run is returned as an error or
\* logged, the caller logs every error returned to it, the failure of the
\* format conversion is logged, and a speaker is reported as created
\* successfully only if none of its steps failed: the run returned no
\* error, nothing was logged for the speaker, and the file was written and
\* closed
C24_NoSilentSuccess ==
    /\ [][StepFailed => (err' # NoError \/ log' # log)]_vars
    /\ [][(BackFromRun /\ err # NoError) => log' # log]_vars
    /\ [][(BackFromRun /\ err = NoError /\ opts.Format # wav
             /\ finalOutputPath(opts, playerId) \notin DOMAIN fs')
            => log' # log]_vars
    /\ [][CreatedSuccessfully
            => err = NoError /\ log = <<>> /\ file = "written"]_vars

\* C24, the failure that is lost: all payloads decoded, the file was created
\* and written, the encoder's Close failed, nothing was returned and nothing
\* was logged, and the speaker was reported as created successfully
C24_CloseFailureSilent ==
    /\ xpc = "loop"
    /\ todo = {}
    /\ file = "unclosed"
    /\ err = NoError
    /\ log = <<>>

\* C24, the direct pipeline: a payload that failed to decode was logged, and
\* the speaker was reported as created successfully all the same
C24_SuccessAfterLoggedSkip ==
    /\ xpc = "loop"
    /\ todo = {}
    /\ voiceDataFormat = FormatOpus
    /\ file = "written"
    /\ err = NoError
    /\ Len(log) = 1
    /\ log[1][1] = "Failed to decode Opus data"

\* C24, what the code keeps: every failing step but the Close is returned
\* or logged, the caller logs every error returned to it, and a speaker is
\* reported as created successfully only after a run that returned no error
\* and wrote the file
C24_AllButCloseReported ==
    /\ [][(StepFailed /\ file' # "unclosed") => (err' # NoError \/ log' # log)]_vars
    /\ [][(BackFromRun /\ err # NoError) => log' # log]_vars
    /\ [][CreatedSuccessfully
            => err = NoError /\ file \in {"written", "unclosed"}]_vars

====
